---------------------------- MODULE Spec2Model ----------------------------
(***************************************************************************)
(* A model of the shade-oracle price-oracle contract (src/src/lib.rs and   *)
(* its helper modules): the attestation gateway (register_agent), the      *)
(* oracle gate and price ingestion (report_prices), the price queries and  *)
(* the administrative collaborators that feed them.                        *)
(*                                                                         *)
(* Execution model: every external call runs to completion on the whole    *)
(* contract state; a panic (assert!, require!, expect, unwrap) aborts the  *)
(* call and the runtime discards every write the call made.  A handler is  *)
(* therefore modelled as an operator that runs the handler's statements in *)
(* source order over a working copy of the state and returns the copy      *)
(* together with the panic message, if any; the action commits the copy    *)
(* only when there was no panic.                                           *)
(***************************************************************************)
EXTENDS Integers, Sequences, FiniteSets, TLC

VARIABLES
    oracles,                \* Contract.oracles: account id -> Oracle (present keys only)
    assets,                 \* Contract.assets: asset id -> Asset (present keys only)
    approved_codehashes,    \* Contract.approved_codehashes
    worker_by_account_id,   \* Contract.worker_by_account_id: account id -> Worker
    recency_duration_sec,   \* Contract.recency_duration_sec
    near_claim_amount,      \* Contract.near_claim_amount
    block_timestamp,        \* env::block_timestamp() of the current block
    block_height,           \* number of blocks produced so far
    last                    \* the last external call and its outcome

vars == <<oracles, assets, approved_codehashes, worker_by_account_id,
          recency_duration_sec, near_claim_amount, block_timestamp,
          block_height, last>>

---------------------------------------------------------------------------
(* Bounds of the model. *)

\* Number of blocks (time advances) explored.
MaxBlocks == 2

\* Cap on Oracle.price_reports (an unbounded u64 counter in the code).
MaxPriceReports == 2

\* Longest event log replayed.
MaxEvents == 2

---------------------------------------------------------------------------
(* Program constants.  Durations and token amounts are scaled so that they *)
(* fit the integers of the model checker; only their ratios matter.        *)

\* 10u64.pow(9): nanoseconds per second, scaled to 2 model time units.
NanosPerSec == 2

\* NearToken::from_near(1), scaled to 4 model units.
ONE_NEAR == 4

NEAR_CLAIM_DURATION == 24 * 60 * 60 * NanosPerSec

SAFETY_MARGIN_NEAR_CLAIM == ONE_NEAR

MAX_VALID_DECIMALS == 77

MAX_U128_DECIMALS == 38

\* Contract::init: recency_duration_sec: 3600
InitRecencyDurationSec == 3600

\* Contract::init: near_claim_amount: 10^24 yoctoNEAR = 1 NEAR
InitNearClaimAmount == ONE_NEAR

---------------------------------------------------------------------------
(* Option<T>: None is the empty sequence, Some(x) the one-element one. *)

None == <<>>

Some(x) == <<x>>

IsSome(o) == o # <<>>

Unwrap(o) == o[1]

---------------------------------------------------------------------------
(* utils.rs: Price and its ordering.                                       *)
(* A Price is [multiplier |-> u128, decimals |-> u8].  The comparison is   *)
(* computed exactly as the code computes it on u128; the model only draws  *)
(* multipliers below 2^31, for which every intermediate value below is     *)
(* representable.                                                          *)

Price(m, d) == [multiplier |-> m, decimals |-> d]

\* A bound on the decimals that is one too high.
PriceIsValidOffByOne(p) == p.decimals <= MAX_VALID_DECIMALS + 1

\* Price::assert_valid: assert!(self.decimals <= MAX_VALID_DECIMALS)
PriceIsValid(p) == p.decimals <= MAX_VALID_DECIMALS

RECURSIVE Pow10(_)
Pow10(n) == IF n = 0 THEN 1 ELSE 10 * Pow10(n - 1)

\* The leading decimal digits of u128::MAX = 340282366920938463463374607431768211455
\* (39 digits), as a number.
U128MaxLeading9 == 340282366

\* other.multiplier.checked_mul(10u128.pow(diff)) is Some: m * 10^diff <= u128::MAX,
\* that is m <= floor(u128::MAX / 10^diff).  For diff <= 29 the quotient has at
\* least 10 digits (>= 3402823669) and exceeds every multiplier of the model.
CheckedMulFits(m, diff) ==
    \/ m = 0
    \/ diff <= 29
    \/ /\ diff <= 38
       /\ m <= U128MaxLeading9 \div Pow10(diff - 30)

\* self.multiplier.cmp(&om) for om = m * 10^diff, computed without forming om.
CmpScaled(sm, m, diff) ==
    IF m = 0 THEN (IF sm = 0 THEN "Equal" ELSE "Greater")
    ELSE IF diff >= 10 THEN "Less"
    ELSE LET p == Pow10(diff)
             q == sm \div p
             r == sm % p
         IN  IF q < m THEN "Less"
             ELSE IF q > m THEN "Greater"
             ELSE IF r = 0 THEN "Equal" ELSE "Greater"

Reverse(o) == IF o = "Less" THEN "Greater" ELSE IF o = "Greater" THEN "Less" ELSE o

\* The body of partial_cmp once self.decimals >= other.decimals.
PartialCmpScaled(self, other) ==
    LET decimals_diff == self.decimals - other.decimals
    IN  IF decimals_diff > MAX_U128_DECIMALS THEN "Less"
        ELSE IF CheckedMulFits(other.multiplier, decimals_diff)
             THEN CmpScaled(self.multiplier, other.multiplier, decimals_diff)
             ELSE "Less"

\* impl PartialOrd for Price: partial_cmp (always Some) and Ord::cmp
partial_cmp(self, other) ==
    IF self.decimals < other.decimals
    THEN Reverse(PartialCmpScaled(other, self))
    ELSE PartialCmpScaled(self, other)

\* impl PartialEq for Price
PriceEq(a, b) == partial_cmp(a, b) = "Equal"

(* The same comparison at the width of the code: a u128 is the sequence of *)
(* its decimal digits, without leading zeros, so that the power of ten, the *)
(* checked product and their overflow are computed and not assumed.        *)

\* a <= b for two digit sequences of one length
RECURSIVE DigitsLeq(_, _)
DigitsLeq(a, b) ==
    IF a = <<>> THEN TRUE
    ELSE IF Head(a) # Head(b) THEN Head(a) < Head(b)
    ELSE DigitsLeq(Tail(a), Tail(b))

\* The 39 decimal digits of u128::MAX = 340282366920938463463374607431768211455
U128MaxDigits ==
    <<3, 4, 0, 2, 8, 2, 3, 6, 6, 9, 2, 0, 9, 3, 8, 4, 6, 3, 4, 6,
      3, 3, 7, 4, 6, 0, 7, 4, 3, 1, 7, 6, 8, 2, 1, 1, 4, 5, 5>>

\* The digits of a number of the model.
RECURSIVE DecOf(_)
DecOf(n) == IF n < 10 THEN <<n>> ELSE Append(DecOf(n \div 10), n % 10)

\* digits * 10^k, without a bound
DecMulPow10(digits, k) == IF digits = <<0>> THEN digits ELSE digits \o [i \in 1..k |-> 0]

\* The number does not exceed u128::MAX.
DecFitsU128(digits) ==
    \/ Len(digits) < Len(U128MaxDigits)
    \/ Len(digits) = Len(U128MaxDigits) /\ DigitsLeq(digits, U128MaxDigits)

\* u128::cmp
DecCmp(a, b) ==
    IF Len(a) # Len(b) THEN (IF Len(a) < Len(b) THEN "Less" ELSE "Greater")
    ELSE IF a = b THEN "Equal"
    ELSE IF DigitsLeq(a, b) THEN "Less" ELSE "Greater"

\* 10u128.pow(exp): None when the power exceeds u128::MAX (a panic with
\* overflow checks, a wrapped value without them).
pow10_u128(exp) ==
    IF DecFitsU128(DecMulPow10(<<1>>, exp)) THEN Some(DecMulPow10(<<1>>, exp)) ELSE None

\* multiplier.checked_mul(10^exp)
checked_mul_pow10(multiplier, exp) ==
    IF DecFitsU128(DecMulPow10(DecOf(multiplier), exp))
    THEN Some(DecMulPow10(DecOf(multiplier), exp)) ELSE None

Compared(ordering, overflow) == [ordering |-> ordering, overflow |-> overflow]

\* The body of partial_cmp with the guard one decimal too late.
PartialCmpScaledU128LateGuard(self, other) ==
    LET decimals_diff == self.decimals - other.decimals
    IN  IF decimals_diff > MAX_U128_DECIMALS + 1 THEN Compared("Less", FALSE)
        ELSE IF pow10_u128(decimals_diff) = None THEN Compared("Less", TRUE)
        ELSE IF IsSome(checked_mul_pow10(other.multiplier, decimals_diff))
        THEN Compared(DecCmp(DecOf(self.multiplier),
                             Unwrap(checked_mul_pow10(other.multiplier, decimals_diff))),
                      FALSE)
        ELSE Compared("Less", FALSE)

\* The body of partial_cmp once self.decimals >= other.decimals, lines 41-56:
\* the ordering, and whether 10u128.pow or the u8 subtraction overflowed.
PartialCmpScaledU128(self, other) ==
    LET decimals_diff == self.decimals - other.decimals
    IN  IF decimals_diff < 0 THEN Compared("Less", TRUE)
        ELSE IF decimals_diff > MAX_U128_DECIMALS THEN Compared("Less", FALSE)
        ELSE IF pow10_u128(decimals_diff) = None THEN Compared("Less", TRUE)
        ELSE IF IsSome(checked_mul_pow10(other.multiplier, decimals_diff))
        THEN Compared(DecCmp(DecOf(self.multiplier),
                             Unwrap(checked_mul_pow10(other.multiplier, decimals_diff))),
                      FALSE)
        ELSE Compared("Less", FALSE)

\* partial_cmp, lines 37-39 and the body above
partial_cmp_u128(self, other) ==
    IF self.decimals < other.decimals
    THEN Compared(Reverse(PartialCmpScaledU128(other, self).ordering),
                  PartialCmpScaledU128(other, self).overflow)
    ELSE PartialCmpScaledU128(self, other)

\* pub(crate) fn to_nano(ts: u32) -> Timestamp
to_nano(ts) == ts * NanosPerSec

\* Timestamp::saturating_sub
saturating_sub(a, b) == IF a >= b THEN a - b ELSE 0

---------------------------------------------------------------------------
(* Sequence helpers. *)

RECURSIVE SeqToSet(_)
SeqToSet(s) == IF s = <<>> THEN {} ELSE {Head(s)} \cup SeqToSet(Tail(s))

\* Iterator::find / filter(..).next(): the 1-based position of the first TRUE
\* of a sequence of test results, or 0.
FirstIndex(hits) ==
    IF \E i \in 1..Len(hits) : hits[i]
    THEN CHOOSE i \in 1..Len(hits) : hits[i] /\ \A j \in 1..(i - 1) : ~hits[j]
    ELSE 0

---------------------------------------------------------------------------
(* oracle.rs (not among the sources; modelled from the specification's     *)
(* data model): the Oracle record and its accessors.                       *)

\* Oracle::new()
NewOracle ==
    [last_report |-> 0, price_reports |-> 0, last_near_claim |-> 0,
     codehash |-> None, checksum |-> None]

\* Contract::internal_get_oracle
internal_get_oracle(os, account_id) ==
    IF account_id \in DOMAIN os THEN Some(os[account_id]) ELSE None

\* Contract::internal_set_oracle
internal_set_oracle(os, account_id, oracle) ==
    [a \in (DOMAIN os) \cup {account_id} |-> IF a = account_id THEN oracle ELSE os[a]]

\* UnorderedMap::remove
MapRemove(m, k) == [a \in (DOMAIN m) \ {k} |-> m[a]]

\* UnorderedMap::len
MapLen(m) == Cardinality(DOMAIN m)

---------------------------------------------------------------------------
(* ema.rs and asset.rs (not among the sources; modelled from sections 3    *)
(* and 4.6 of the specification).                                          *)

Report(oracle_id, timestamp, price) ==
    [oracle_id |-> oracle_id, timestamp |-> timestamp, price |-> price]

\* Ema::new(period_sec): starts with no price
NewEma(period_sec) == [period_sec |-> period_sec, timestamp |-> 0, price |-> None]

\* The blend of the previous EMA price toward the new median: the weight of the
\* median grows linearly with the elapsed time and is 1 from one period on.
\* Prices of different scale are not blended: the median replaces the value.
EmaBlend(prev, median, elapsed, period_sec) ==
    IF elapsed >= to_nano(period_sec) \/ prev.decimals # median.decimals
    THEN median
    ELSE Price(prev.multiplier
                 + ((median.multiplier - prev.multiplier) * elapsed) \div to_nano(period_sec),
               prev.decimals)

\* Ema::recompute(price, timestamp)
EmaRecompute(ema, median, timestamp) ==
    [period_sec |-> ema.period_sec,
     timestamp  |-> timestamp,
     price      |-> IF IsSome(ema.price)
                    THEN Some(EmaBlend(Unwrap(ema.price), median,
                                       saturating_sub(timestamp, ema.timestamp),
                                       ema.period_sec))
                    ELSE Some(median)]

\* Asset::new() with the configured EMA periods
NewAsset(periods) ==
    [reports |-> <<>>, emas |-> [i \in 1..Len(periods) |-> NewEma(periods[i])]]

\* Asset::remove_report(&oracle_id) -> bool: true if a report was removed
HasReport(asset, oracle_id) ==
    \E i \in 1..Len(asset.reports) : asset.reports[i].oracle_id = oracle_id

remove_report(asset, oracle_id) ==
    [asset EXCEPT !.reports = SelectSeq(@, LAMBDA r : r.oracle_id # oracle_id)]

\* Asset::add_report(report)
add_report(asset, report) == [asset EXCEPT !.reports = Append(@, report)]

\* The reports with timestamp >= timestamp_cut, in stored order.
RecentReports(asset, timestamp_cut) ==
    SelectSeq(asset.reports, LAMBDA r : r.timestamp >= timestamp_cut)

\* Insertion of a report into a sequence sorted by Price order (stable).
RECURSIVE InsertByPrice(_, _)
InsertByPrice(sorted, r) ==
    IF sorted = <<>> THEN <<r>>
    ELSE IF partial_cmp(r.price, Head(sorted).price) = "Less"
         THEN <<r>> \o sorted
         ELSE <<Head(sorted)>> \o InsertByPrice(Tail(sorted), r)

RECURSIVE SortByPrice(_)
SortByPrice(rs) ==
    IF rs = <<>> THEN <<>>
    ELSE InsertByPrice(SortByPrice(SubSeq(rs, 1, Len(rs) - 1)), rs[Len(rs)])

\* Asset::median_price(timestamp_cut, min_num_recent_reports) -> Option<Price>:
\* the element at index len / 2 (0-based) of the qualifying reports sorted by price.
median_price(asset, timestamp_cut, min_num_recent_reports) ==
    LET recent == RecentReports(asset, timestamp_cut)
    IN  IF Len(recent) < min_num_recent_reports THEN None
        ELSE Some(SortByPrice(recent)[(Len(recent) \div 2) + 1].price)

\* Contract::internal_get_asset
internal_get_asset(as, asset_id) ==
    IF asset_id \in DOMAIN as THEN Some(as[asset_id]) ELSE None

\* Contract::internal_set_asset
internal_set_asset(as, asset_id, asset) ==
    [a \in (DOMAIN as) \cup {asset_id} |-> IF a = asset_id THEN asset ELSE as[a]]

\* A quorum of one, whatever the number of oracles.
min_num_recent_reports_one(os) == 1

min_num_recent_reports_majority(os) == (MapLen(os) \div 2) + 1

\* std::cmp::max(1, (self.oracles.len() + 1) / 2)
min_num_recent_reports(os) ==
    LET n == (MapLen(os) + 1) \div 2 IN IF n > 1 THEN n ELSE 1

---------------------------------------------------------------------------
(* collateral.rs: measurement replay and manifest codehash extraction.     *)
(*                                                                         *)
(* A byte string or a text is a sequence of tokens.  SHA-256 and SHA-384   *)
(* are injective term constructors (collision-free hashing): the digest of *)
(* data is data in a bracket that names the function.  A hex string is     *)
(* a pair <<form, bytes>>: form "lower" is what hex::encode produces,      *)
(* "upper" decodes to the same bytes but is a different string, and "bad"  *)
(* does not decode.  A JSON number is an integer; a negative one stands    *)
(* for a value as_u64() rejects.                                           *)

HexEncode(bytes) == <<"lower", bytes>>

HexDecodeOk(h) == h[1] \in {"lower", "upper"}

HexDecode(h) == h[2]

Sha256(data) == <<"sha256(">> \o data \o <<")">>

Sha384(data) == <<"sha384(">> \o data \o <<")">>

\* [0u8; 48]
Zero48 == <<"0x00*48">>

\* The result of a call that may panic.
Ok(v) == [ok |-> TRUE, err |-> "", val |-> v]

Panic(msg) == [ok |-> FALSE, err |-> msg, val |-> <<>>]

\* A filter that lets every event through.
ImrMatchesAny(e, imr) == TRUE

\* e["imr"].as_u64().unwrap() as u8 == imr
ImrMatches(e, imr) == (e.imr % 256) = imr

\* A replay that hashes the matching digests as a set, in no order.
ReplayFoldUnordered(event_log, imr, digest) ==
    Ok(Sha384(digest \o <<{HexDecode(event_log[i].digest) :
                              i \in {k \in 1..Len(event_log) :
                                         ImrMatches(event_log[k], imr)}}>>))

\* fn replay_rtmr(event_log, imr) -> String.  The filter closure unwraps the imr
\* of every event it visits; the loop decodes the digest of every matching one.
RECURSIVE ReplayFold(_, _, _)
ReplayFold(event_log, imr, digest) ==
    IF event_log = <<>> THEN Ok(digest)
    ELSE LET e == Head(event_log)
         IN  IF e.imr < 0 THEN Panic("imr is not a u64")
             ELSE IF ~ImrMatches(e, imr) THEN ReplayFold(Tail(event_log), imr, digest)
             ELSE IF ~HexDecodeOk(e.digest) THEN Panic("digest is not hex")
             ELSE ReplayFold(Tail(event_log), imr,
                             Sha384(digest \o HexDecode(e.digest)))

replay_rtmr(event_log, imr) ==
    LET r == ReplayFold(event_log, imr, Zero48)
    IN  IF r.ok THEN Ok(HexEncode(r.val)) ELSE r

\* fn replay_app_compose(app_compose) -> String
replay_app_compose(app_compose) ==
    HexEncode(Sha384(<<"01000008", ":", "compose-hash", ":">> \o Sha256(app_compose)))

(* The manifest text is a sequence of tokens: the two markers, the pieces    *)
(* of the literal patterns the parser looks for, whitespace, 64-character    *)
(* digests and other text.  A pattern is a sequence of tokens.               *)
TokApi == "#shade-agent-api-image"

TokApp == "#shade-agent-app-image"

\* The two characters backslash, n.
TokNl == "\\n"

TokImage == "image:"

TokAt == "@sha256:"

TokSpace == " "

PatApi == <<TokApi>>

PatApp == <<TokApp>>

\* "\\nimage:"
PatNlImage == <<TokNl, TokImage>>

\* "\\n"
PatNl == <<TokNl>>

PatAt == <<TokAt>>

\* Names of 64-hex-character digests.
Digests64 == {"d1", "d2", "d3"}

\* Length in characters of a token, as far as split_at(64) can tell.
TokLen(t) == IF t \in Digests64 THEN 64 ELSE 1

RECURSIVE TextLen(_)
TextLen(tokens) == IF tokens = <<>> THEN 0 ELSE TokLen(Head(tokens)) + TextLen(Tail(tokens))

\* app_compose_string.retain(|c| !c.is_whitespace())
StripWhitespace(tokens) == SelectSeq(tokens, LAMBDA t : t # TokSpace)

MatchAt(text, pattern, i) ==
    /\ i + Len(pattern) - 1 <= Len(text)
    /\ SubSeq(text, i, i + Len(pattern) - 1) = pattern

\* The position of the first occurrence of the pattern, or 0.
SplitIndex(text, pattern) ==
    IF \E i \in 1..Len(text) : MatchAt(text, pattern, i)
    THEN CHOOSE i \in 1..Len(text) :
            MatchAt(text, pattern, i) /\ \A j \in 1..(i - 1) : ~MatchAt(text, pattern, j)
    ELSE 0

\* The two sides of the occurrence of the pattern at position i, or None.
SplitAt(text, pattern, i) ==
    IF i = 0 THEN None
    ELSE Some([left  |-> SubSeq(text, 1, i - 1),
               right |-> SubSeq(text, i + Len(pattern), Len(text))])

\* str::split_once(pattern)
split_once(text, pattern) == SplitAt(text, pattern, SplitIndex(text, pattern))

\* right.split_at(64).0: panics when the text is shorter than 64 characters.
SplitAt64(text) ==
    IF TextLen(text) < 64 THEN Panic("split_at out of bounds")
    ELSE IF TokLen(Head(text)) = 64 THEN Ok(Head(text))
    ELSE Ok("the first 64 characters of a text that does not start with a digest")

(* The four split_once calls and the split_at of one marker's block, lines   *)
(* 63-69 and 72-78, each given the result of the split before it.            *)

\* left.split_once("@sha256:").unwrap(), right.split_at(64)
ImageDigest(at) ==
    IF at = None THEN Panic("@sha256: not found") ELSE SplitAt64(Unwrap(at).right)

\* right.split_once("\\n").unwrap()
ImageLine(line) ==
    IF line = None THEN Panic("end of image line not found")
    ELSE ImageDigest(split_once(Unwrap(line).left, PatAt))

\* right.split_once("\\nimage:").unwrap()
ImageDeclaration(declaration) ==
    IF declaration = None THEN Panic("image declaration not found")
    ELSE ImageLine(split_once(Unwrap(declaration).right, PatNl))

\* app_compose_string.split_once(marker).unwrap()
MarkedBlock(marked) ==
    IF marked = None THEN Panic("marker not found")
    ELSE ImageDeclaration(split_once(Unwrap(marked).right, PatNlImage))

\* The digest of the first image declaration of the manifest, whatever the
\* marker.
ExtractFirstImage(text, marker) == ImageDeclaration(split_once(text, PatNlImage))

ExtractImage(text, marker) == MarkedBlock(split_once(text, marker))

\* app_compose_string.matches("\\nimage:").count()
ImageDeclarationCount(text) ==
    Cardinality({i \in 1..Len(text) : MatchAt(text, PatNlImage, i)})

(* A TCB info document is [json_ok, event_log, app_compose]; an event is     *)
(* [event, digest, imr].                                                     *)
ComposeHashIndex(event_log) == 
    FirstIndex([i \in 1..Len(event_log) |-> event_log[i].event = "compose-hash"])

\* A pair returned whatever the number of image declarations.
ImagePairNoCount(text, api, app) ==
    IF ~api.ok THEN api
    ELSE IF ~app.ok THEN app
    ELSE Ok(<<api.val, app.val>>)

\* Lines 80-90: the count of image declarations and the pair returned, given
\* the two digests extracted.
ImagePair(text, api, app) ==
    IF ~api.ok THEN api
    ELSE IF ~app.ok THEN app
    ELSE IF ImageDeclarationCount(text) # 2
         THEN Panic("app_compose should contain exactly two image declarations")
    ELSE Ok(<<api.val, app.val>>)

\* Lines 58-90 on the manifest with its whitespace removed.
ExtractImages(text) ==
    ImagePair(text, ExtractImage(text, PatApi), ExtractImage(text, PatApp))

\* A verification that does not compare the replayed register with rtmr3.
VerifyReplayedUnbound(tcb_info, rtmr3, replayed_rtmr3) ==
    IF ~replayed_rtmr3.ok THEN replayed_rtmr3
    ELSE IF replay_app_compose(tcb_info.app_compose)
               # tcb_info.event_log[ComposeHashIndex(tcb_info.event_log)].digest
         THEN Panic("compose hash mismatch")
    ELSE ExtractImages(StripWhitespace(tcb_info.app_compose))

\* Lines 50-90, given the replayed register.
VerifyReplayed(tcb_info, rtmr3, replayed_rtmr3) ==
    IF ~replayed_rtmr3.ok THEN replayed_rtmr3
    ELSE IF replay_app_compose(tcb_info.app_compose)
               # tcb_info.event_log[ComposeHashIndex(tcb_info.event_log)].digest
         THEN Panic("compose hash mismatch")
    ELSE IF replayed_rtmr3.val # rtmr3 THEN Panic("rtmr3 mismatch")
    ELSE ExtractImages(StripWhitespace(tcb_info.app_compose))

\* pub fn verify_codehash(raw_tcb_info, rtmr3) -> (String, String)
verify_codehash(tcb_info, rtmr3) ==
    IF ~tcb_info.json_ok THEN Panic("TCB Info should be valid JSON")
    ELSE IF ComposeHashIndex(tcb_info.event_log) = 0 THEN Panic("no compose-hash event")
    ELSE VerifyReplayed(tcb_info, rtmr3, replay_rtmr(tcb_info.event_log, 3))

---------------------------------------------------------------------------
(* lib.rs: the read-only queries. *)

\* Contract::get_oracle
get_oracle(account_id) == internal_get_oracle(oracles, account_id)

\* Contract::get_asset
get_asset(asset_id) == internal_get_asset(assets, asset_id)

\* Contract::get_agent: Ok(worker), or the panic "no worker found"
get_agent(account_id) ==
    IF account_id \in DOMAIN worker_by_account_id
    THEN Ok(worker_by_account_id[account_id])
    ELSE Panic("no worker found")

\* No recency cut: every stored report counts.
timestamp_cut_zero(timestamp, recency_sec) == 0

\* timestamp.saturating_sub(to_nano(self.recency_duration_sec))
timestamp_cut(timestamp, recency_sec) == saturating_sub(timestamp, to_nano(recency_sec))

\* Contract::get_price_data, the entry of a plain asset id
PlainPrice(asset_id) ==
    LET asset == internal_get_asset(assets, asset_id)
    IN  IF IsSome(asset)
        THEN median_price(Unwrap(asset),
                          timestamp_cut(block_timestamp, recency_duration_sec),
                          min_num_recent_reports(oracles))
        ELSE None

\* A lookup that takes the asset's first Ema, whatever its period.
EmaPriceOfFirstEma(base_asset_id, period_sec) ==
    LET asset == internal_get_asset(assets, base_asset_id)
        cut   == timestamp_cut(block_timestamp, recency_duration_sec)
    IN  IF IsSome(asset) /\ Unwrap(asset).emas # <<>>
           /\ Unwrap(asset).emas[1].timestamp >= cut
        THEN Unwrap(asset).emas[1].price
        ELSE None

\* Contract::get_price_data, the entry of a composite "asset#period" id
EmaPrice(base_asset_id, period_sec) ==
    LET asset == internal_get_asset(assets, base_asset_id)
        cut   == timestamp_cut(block_timestamp, recency_duration_sec)
    IN  IF IsSome(asset)
        THEN LET emas == Unwrap(asset).emas
                 i    == FirstIndex([k \in 1..Len(emas) |-> emas[k].period_sec = period_sec])
             IN  IF i # 0 /\ emas[i].timestamp >= cut THEN emas[i].price ELSE None
        ELSE None

\* A lookup that cuts at the configured recency, whatever the caller supplies.
OraclePriceConfiguredRecency(account_id, asset_id, recency_sec) ==
    LET asset == internal_get_asset(assets, asset_id)
        cut   == timestamp_cut(block_timestamp, recency_duration_sec)
    IN  IF IsSome(asset)
        THEN LET reports == Unwrap(asset).reports
                 i       == FirstIndex([k \in 1..Len(reports) |->
                                           reports[k].oracle_id = account_id])
             IN  IF i # 0 /\ reports[i].timestamp >= cut
                 THEN Some(reports[i].price) ELSE None
        ELSE None

\* Contract::get_oracle_price_data, the entry of one asset id
OraclePrice(account_id, asset_id, recency_sec) ==
    LET asset == internal_get_asset(assets, asset_id)
        cut   == timestamp_cut(block_timestamp, recency_sec)
    IN  IF IsSome(asset)
        THEN LET reports == Unwrap(asset).reports
                 i       == FirstIndex([k \in 1..Len(reports) |->
                                           reports[k].oracle_id = account_id])
             IN  IF i # 0 /\ reports[i].timestamp >= cut
                 THEN Some(reports[i].price) ELSE None
        ELSE None

\* An asset id as the text of a request: a sequence of characters.  The asset
\* ids of the model are one character long.
AssetIdText(asset_id) == <<asset_id>>

\* The asset id a text spells; "" spells no asset id of the model.
AssetIdOf(text) == IF Len(text) = 1 THEN text[1] ELSE ""

\* The decimal digits of u32::MAX = 4294967295
U32MaxDigits == <<4, 2, 9, 4, 9, 6, 7, 2, 9, 5>>

DigitOf(c) ==
    CASE c = "0" -> 0 [] c = "1" -> 1 [] c = "2" -> 2 [] c = "3" -> 3
      [] c = "4" -> 4 [] c = "5" -> 5 [] c = "6" -> 6 [] c = "7" -> 7
      [] c = "8" -> 8 [] c = "9" -> 9 [] OTHER -> -1

RECURSIVE StripZeros(_)
StripZeros(digits) ==
    IF digits # <<>> /\ Head(digits) = 0 THEN StripZeros(Tail(digits)) ELSE digits

\* The number does not exceed u32::MAX.
FitsU32(digits) ==
    LET significant == StripZeros(digits)
    IN  \/ Len(significant) < Len(U32MaxDigits)
        \/ Len(significant) = Len(U32MaxDigits) /\ DigitsLeq(significant, U32MaxDigits)

RECURSIVE DigitsValue(_, _)
DigitsValue(digits, acc) ==
    IF digits = <<>> THEN acc ELSE DigitsValue(Tail(digits), acc * 10 + Head(digits))

\* str::parse::<u32>(): decimal digits after an optional "+"; Panic stands
\* for Err(ParseIntError): no digit, a character that is no digit, or a value
\* above u32::MAX.
parse_u32(text) ==
    LET body   == IF text # <<>> /\ Head(text) = "+" THEN Tail(text) ELSE text
        digits == [i \in 1..Len(body) |-> DigitOf(body[i])]
    IN  IF body = <<>> \/ (\E i \in 1..Len(body) : digits[i] < 0) \/ ~FitsU32(digits)
        THEN Panic("ParseIntError")
        ELSE Ok(DigitsValue(digits, 0))

AssetOptionalPrice(asset_id, price) == [asset_id |-> asset_id, price |-> price]

\* Contract::get_price_data, the closure of the map: the entry of one
\* requested id, or the panic of the expect on the period.
PriceDataEntry(text) ==
    LET split == split_once(text, <<"#">>)
    IN  IF IsSome(split)
        THEN LET period_sec == parse_u32(Unwrap(split).right)
             IN  IF ~period_sec.ok THEN Panic("Failed to parse EMA period")
                 ELSE Ok(AssetOptionalPrice(text,
                             EmaPrice(AssetIdOf(Unwrap(split).left), period_sec.val)))
        ELSE Ok(AssetOptionalPrice(text, PlainPrice(AssetIdOf(text))))

\* asset_ids.unwrap_or_else(|| self.assets.keys().cloned().collect()): the
\* keys in one order (which order the map iterates in is not modelled).
RequestedIds(asset_ids) ==
    IF IsSome(asset_ids) THEN Unwrap(asset_ids)
    ELSE LET keys == DOMAIN assets
         IN  CHOOSE q \in [1..Cardinality(keys) -> {AssetIdText(k) : k \in keys}] :
                 \A k \in keys : \E i \in 1..Cardinality(keys) : q[i] = AssetIdText(k)

PriceData(timestamp, recency_sec, prices) ==
    [timestamp |-> timestamp, recency_duration_sec |-> recency_sec, prices |-> prices]

\* Contract::get_price_data(asset_ids): Ok(PriceData), or the panic of the
\* first entry that panics
get_price_data(asset_ids) ==
    LET ids     == RequestedIds(asset_ids)
        entries == [i \in 1..Len(ids) |-> PriceDataEntry(ids[i])]
        bad     == FirstIndex([i \in 1..Len(ids) |-> ~entries[i].ok])
    IN  IF bad # 0 THEN Panic(entries[bad].err)
        ELSE Ok(PriceData(block_timestamp, recency_duration_sec,
                          [i \in 1..Len(ids) |-> entries[i].val]))

\* Contract::get_oracle_price_data(account_id, asset_ids, recency_duration_sec)
get_oracle_price_data(account_id, asset_ids, recency_sec) ==
    LET ids     == RequestedIds(asset_ids)
        recency == IF IsSome(recency_sec) THEN Unwrap(recency_sec)
                   ELSE recency_duration_sec
    IN  Ok(PriceData(block_timestamp, recency,
                     [i \in 1..Len(ids) |->
                         AssetOptionalPrice(ids[i],
                             OraclePrice(account_id, AssetIdOf(ids[i]), recency))]))

---------------------------------------------------------------------------
(* lib.rs: report_prices. *)

\* A gate that lets a record without codehash through.
require_approved_codehash_none_passes(approved, oracle) ==
    IF IsSome(oracle.codehash) /\ Unwrap(oracle.codehash) \notin approved
    THEN "Oracle codehash is not approved"
    ELSE ""

\* A gate that checks the approval only until the oracle's first report.
require_approved_codehash_cached(approved, oracle) ==
    IF ~IsSome(oracle.codehash)
    THEN "Oracle must have approved codehash to report prices"
    ELSE IF Unwrap(oracle.codehash) \notin approved /\ oracle.price_reports = 0
         THEN "Oracle codehash is not approved"
         ELSE ""

\* Contract::require_approved_codehash: the panic message, or "" when it passes
require_approved_codehash(approved, oracle) ==
    IF ~IsSome(oracle.codehash)
    THEN "Oracle must have approved codehash to report prices"
    ELSE IF Unwrap(oracle.codehash) \notin approved
         THEN "Oracle codehash is not approved"
         ELSE ""

\* Every EMA stamped with the timestamp also when there is no median.
RecomputeEmasStamping(reported, median, timestamp) ==
    [reported EXCEPT !.emas =
        [i \in 1..Len(reported.emas) |->
            IF IsSome(median)
            THEN EmaRecompute(reported.emas[i], Unwrap(median), timestamp)
            ELSE [reported.emas[i] EXCEPT !.timestamp = timestamp]]]

\* Lines 255-259: every EMA recomputed from the median, when there is one.
RecomputeEmas(reported, median, timestamp) ==
    IF reported.emas # <<>> /\ IsSome(median)
    THEN [reported EXCEPT !.emas =
             [i \in 1..Len(reported.emas) |->
                 EmaRecompute(reported.emas[i], Unwrap(median), timestamp)]]
    ELSE reported

\* Lines 249-260 on the asset that holds the new report.
UpdateEmas(reported, os, timestamp, recency_sec) ==
    RecomputeEmas(reported,
                  median_price(reported, timestamp_cut(timestamp, recency_sec),
                               min_num_recent_reports(os)),
                  timestamp)

\* An iteration that adds the new report without removing the reporter's old one.
UpdateAssetKeepingOldReport(asset, os, oracle_id, timestamp, price, recency_sec) ==
    UpdateEmas(add_report(asset, Report(oracle_id, timestamp, price)),
               os, timestamp, recency_sec)

\* An iteration that replaces every stored report by the new one.
UpdateAssetDroppingOthers(asset, os, oracle_id, timestamp, price, recency_sec) ==
    UpdateEmas(add_report([asset EXCEPT !.reports = <<>>],
                          Report(oracle_id, timestamp, price)),
               os, timestamp, recency_sec)

\* One iteration of the price loop on a known asset (lines 243-262).
UpdateAsset(asset, os, oracle_id, timestamp, price, recency_sec) ==
    UpdateEmas(add_report(remove_report(asset, oracle_id),
                          Report(oracle_id, timestamp, price)),
               os, timestamp, recency_sec)

\* An unknown asset listed on its first report.
ListUnknownAsset(as, asset_id) == internal_set_asset(as, asset_id, NewAsset(<<>>))

\* Lines 263-265: a pair that names an unknown asset is logged and skipped.
SkipUnknownAsset(as, asset_id) == as

\* The loop over the batch (lines 240-266): the assets as written so far, the
\* number of asset writes made, and the panic that stopped the loop, if any.
RECURSIVE UpdatePrices(_, _, _, _, _, _, _)
UpdatePrices(as, writes, os, oracle_id, timestamp, prices, recency_sec) ==
    IF prices = <<>> THEN [err |-> "", assets |-> as, writes |-> writes]
    ELSE LET ap    == Head(prices)
             asset == internal_get_asset(as, ap.asset_id)
         IN  IF ~PriceIsValid(ap.price)
             THEN [err |-> "assertion failed: self.decimals <= MAX_VALID_DECIMALS",
                   assets |-> as, writes |-> writes]
             ELSE IF IsSome(asset)
             THEN UpdatePrices(
                     internal_set_asset(as, ap.asset_id,
                         UpdateAsset(Unwrap(asset), os, oracle_id, timestamp,
                                     ap.price, recency_sec)),
                     writes + 1, os, oracle_id, timestamp, Tail(prices), recency_sec)
             ELSE UpdatePrices(SkipUnknownAsset(as, ap.asset_id), writes, os, oracle_id,
                               timestamp, Tail(prices), recency_sec)

\* The contract's liquid balance as line 229 computes it.  env is
\* [account_balance, account_locked_balance, storage_cost], storage_cost being
\* storage_byte_cost * storage_usage.
liquid_balance(env) == env.account_balance + env.account_locked_balance - env.storage_cost

\* A reward claim without the cooldown.
ClaimIssuedWithoutCooldown(oracle, claim_near, timestamp, env, claim_amount) ==
    /\ claim_near
    /\ liquid_balance(env) > claim_amount + SAFETY_MARGIN_NEAR_CLAIM

\* The reward claim (lines 227-235): does the call issue a transfer?
ClaimIssued(oracle, claim_near, timestamp, env, claim_amount) ==
    /\ claim_near
    /\ oracle.last_near_claim + NEAR_CLAIM_DURATION <= timestamp
    /\ liquid_balance(env) > claim_amount + SAFETY_MARGIN_NEAR_CLAIM

\* Lines 224-225 with one observation counted per call.
CountReportOnce(oracle, timestamp, n) ==
    [oracle EXCEPT !.last_report = timestamp, !.price_reports = @ + 1]

\* Lines 224-225: the call's timestamp and observations on the oracle record.
CountReport(oracle, timestamp, n) ==
    [oracle EXCEPT !.last_report = timestamp, !.price_reports = @ + n]

\* A reward claim that panics when the balance does not allow the transfer.
ClaimNearOrPanic(counted, claim_near, timestamp, env, claim_amount) ==
    IF claim_near /\ counted.last_near_claim + NEAR_CLAIM_DURATION <= timestamp
    THEN IF liquid_balance(env) > claim_amount + SAFETY_MARGIN_NEAR_CLAIM
         THEN [err |-> "", oracle |-> [counted EXCEPT !.last_near_claim = timestamp],
               transfer |-> claim_amount]
         ELSE [err |-> "Not enough balance", oracle |-> counted, transfer |-> 0]
    ELSE [err |-> "", oracle |-> counted, transfer |-> 0]

\* Lines 227-235: the oracle record after the reward claim and the amount of
\* the transfer the call schedules (0: none).
ClaimNear(counted, claim_near, timestamp, env, claim_amount) ==
    IF ClaimIssued(counted, claim_near, timestamp, env, claim_amount)
    THEN [err |-> "", oracle |-> [counted EXCEPT !.last_near_claim = timestamp],
          transfer |-> claim_amount]
    ELSE [err |-> "", oracle |-> counted, transfer |-> 0]

\* Contract::report_prices run on the current state: the panic message ("" when
\* the call succeeds), the maps as written when the call ended, the transfer
\* issued (0: none) and the number of storage writes made before the call ended.
report_prices(oracle_id, prices, claim_near, env) ==
    LET timestamp == block_timestamp
        found     == internal_get_oracle(oracles, oracle_id)
        unchanged == [oracles |-> oracles, assets |-> assets, transfer |-> 0, writes |-> 0]
    IN  IF prices = <<>>
        THEN [err |-> "assertion failed: !prices.is_empty()"] @@ unchanged
        ELSE IF ~IsSome(found) THEN [err |-> "Not an oracle"] @@ unchanged
        ELSE IF require_approved_codehash(approved_codehashes, Unwrap(found)) # ""
        THEN [err |-> require_approved_codehash(approved_codehashes, Unwrap(found))]
             @@ unchanged
        ELSE
        LET counted == CountReport(Unwrap(found), timestamp, Len(prices))
            claim   == ClaimNear(counted, claim_near, timestamp, env, near_claim_amount)
            os      == internal_set_oracle(oracles, oracle_id, claim.oracle)
            loop    == UpdatePrices(assets, 0, os, oracle_id, timestamp, prices,
                                    recency_duration_sec)
        IN  IF claim.err # "" THEN [err |-> claim.err] @@ unchanged
            ELSE [err      |-> loop.err,
                  oracles  |-> os,
                  assets   |-> loop.assets,
                  transfer |-> claim.transfer,
                  writes   |-> 1 + loop.writes]

---------------------------------------------------------------------------
(* lib.rs: register_agent.                                                 *)
(*                                                                         *)
(* A quote is [hex_ok, sig_ok, variant, report_data, rt_mr3]: whether the  *)
(* hex text decodes, whether its signatures verify, the variant of its     *)
(* report body, the bytes of the 64-byte report_data field and the bytes   *)
(* of rt_mr3.  A collateral document is [wellformed, next_update]: whether *)
(* get_collateral can read it and the time in seconds until which its TCB  *)
(* info is valid.  dcap_qvl::verify::verify is an external library: it is  *)
(* modelled by what the caller can observe, success or failure.            *)

\* verify::verify(&quote, &collateral_data, now) is Ok
QuoteVerifies(quote, collateral, now_sec) ==
    quote.sig_ok /\ now_sec <= collateral.next_update

\* String::from_utf8_lossy of one byte token: invalid UTF-8 becomes U+FFFD.
Utf8LossyByte(b) == IF b = "0xFF" THEN "U+FFFD" ELSE b

\* format!("{}", String::from_utf8_lossy(&report.report_data))
Utf8Lossy(bytes) == [i \in 1..Len(bytes) |-> Utf8LossyByte(bytes[i])]

\* An account id as the string env::predecessor_account_id() compares with.
AccountIdStr(account_id) == <<account_id>>

\* A registration that does not bind the quote to the caller.
ReportDataMatchesAny(predecessor, report_data) == TRUE

\* require!(env::predecessor_account_id() == report_data, ...)
ReportDataMatches(predecessor, report_data) == AccountIdStr(predecessor) = report_data

\* A registration that checks the application image only.
RequireAppImageApproved(approved, shade_agent_api_image, shade_agent_app_image) ==
    IF shade_agent_app_image \notin approved THEN "app image is not approved" ELSE ""

\* The two require!(self.approved_codehashes.contains(..)) of lines 294-295: the
\* panic message, or "" when both pass.
RequireImagesApproved(approved, shade_agent_api_image, shade_agent_app_image) ==
    IF shade_agent_api_image \notin approved THEN "api image is not approved"
    ELSE IF shade_agent_app_image \notin approved THEN "app image is not approved"
    ELSE ""

\* Lines 294-295 on the pair verify_codehash returned.
ApprovedImages(approved, images) ==
    IF ~images.ok THEN images
    ELSE IF RequireImagesApproved(approved, images.val[1], images.val[2]) # ""
         THEN Panic(RequireImagesApproved(approved, images.val[1], images.val[2]))
    ELSE images

\* Lines 276-295: everything register_agent verifies before it looks at the
\* oracle map.  Ok(<<api image, app image>>) or the panic.
Attest(predecessor, quote, collateral, tcb_info) ==
    IF ~collateral.wellformed THEN Panic("collateral is malformed")
    ELSE IF ~quote.hex_ok THEN Panic("quote_hex is not hex")
    ELSE IF ~QuoteVerifies(quote, collateral, block_timestamp \div NanosPerSec)
         THEN Panic("report is not verified")
    ELSE IF quote.variant # "TD10" THEN Panic("report is not TD10")
    ELSE IF ~ReportDataMatches(predecessor, Utf8Lossy(quote.report_data))
         THEN Panic("predecessor_account_id != report_data")
    ELSE ApprovedImages(approved_codehashes,
                        verify_codehash(tcb_info, HexEncode(quote.rt_mr3)))

\* A registration that records the API image as the oracle's codehash.
RegisteredOracleApiImage(shade_agent_api_image, shade_agent_app_image, checksum) ==
    [NewOracle EXCEPT !.codehash = Some(shade_agent_api_image),
                      !.checksum = Some(checksum)]

\* Lines 303-305: the Oracle record register_agent creates.
RegisteredOracle(shade_agent_api_image, shade_agent_app_image, checksum) ==
    [NewOracle EXCEPT !.codehash = Some(shade_agent_app_image),
                      !.checksum = Some(checksum)]

\* A registration check that never finds an existing record.
OracleExistsNever(os, predecessor) == FALSE

\* assert!(self.internal_get_oracle(&predecessor).is_none(), "Oracle already exists")
OracleExists(os, predecessor) == IsSome(internal_get_oracle(os, predecessor))

\* Lines 297-309 with the write before the existence check.
PersistFirst(predecessor, checksum, images) ==
    IF ~images.ok THEN [err |-> images.err, oracles |-> oracles]
    ELSE [err     |-> IF OracleExists(oracles, predecessor)
                      THEN "Oracle already exists" ELSE "",
          oracles |-> internal_set_oracle(oracles, predecessor,
                          RegisteredOracle(images.val[1], images.val[2], checksum))]

\* Lines 297-309, given the attested pair of images: the existence check and
\* the write of the new record.
Persist(predecessor, checksum, images) ==
    IF ~images.ok THEN [err |-> images.err, oracles |-> oracles]
    ELSE IF OracleExists(oracles, predecessor)
         THEN [err |-> "Oracle already exists", oracles |-> oracles]
    ELSE [err     |-> "",
          oracles |-> internal_set_oracle(oracles, predecessor,
                          RegisteredOracle(images.val[1], images.val[2], checksum))]

\* A register_agent that persists the record before the existence check.
register_agent_write_first(predecessor, quote, collateral, checksum, tcb_info) ==
    PersistFirst(predecessor, checksum, Attest(predecessor, quote, collateral, tcb_info))

\* Contract::register_agent run on the current state: the panic message ("" when
\* the call returns true) and the oracle map as written when the call ended.
register_agent(predecessor, quote, collateral, checksum, tcb_info) ==
    Persist(predecessor, checksum, Attest(predecessor, quote, collateral, tcb_info))

---------------------------------------------------------------------------
(* lib.rs: clean_oracle_data. *)

\* The loop of clean_oracle_data (lines 106-111).
RECURSIVE CleanLoop(_, _, _)
CleanLoop(as, account_id, asset_ids) ==
    IF asset_ids = <<>> THEN [err |-> "", assets |-> as]
    ELSE LET asset == internal_get_asset(as, Head(asset_ids))
         IN  IF ~IsSome(asset) THEN [err |-> "Unknown asset", assets |-> as]
             ELSE CleanLoop(
                     IF HasReport(Unwrap(asset), account_id)
                     THEN internal_set_asset(as, Head(asset_ids),
                                             remove_report(Unwrap(asset), account_id))
                     ELSE as,
                     account_id, Tail(asset_ids))

\* A clean_oracle_data without the assertion of line 105.
clean_oracle_data_unasserted(account_id, asset_ids) ==
    CleanLoop(assets, account_id, asset_ids)

\* Contract::clean_oracle_data run on the current state
clean_oracle_data(account_id, asset_ids) ==
    IF IsSome(internal_get_oracle(oracles, account_id))
    THEN [err |-> "assertion failed: oracle is none", assets |-> assets]
    ELSE CleanLoop(assets, account_id, asset_ids)

---------------------------------------------------------------------------
(* The inputs the model draws from. *)

\* Accounts whose id is exactly as long as the report_data field (64 bytes:
\* implicit accounts), and a shorter, named account.
ImplicitAccounts == {"a1", "a2", "a3"}

NamedAccounts == {"b"}

Accounts == ImplicitAccounts \cup NamedAccounts

AssetIds == {"u", "v"}

\* The codehashes the owner may approve.
Codehashes == {"d1", "d2"}

\* add_asset's EMA periods
EmaPeriodChoices == {<<>>, <<3600>>}

ValidPrices == {Price(100, 2), Price(2, 0)}

\* decimals > MAX_VALID_DECIMALS
InvalidPrice == Price(1, MAX_VALID_DECIMALS + 1)

AssetPrice(asset_id, price) == [asset_id |-> asset_id, price |-> price]

\* Longest batch of report_prices drawn.
MaxBatch == 2

RECURSIVE SeqsUpTo(_, _)
SeqsUpTo(S, n) ==
    IF n = 0 THEN {<<>>}
    ELSE LET shorter == SeqsUpTo(S, n - 1)
         IN  shorter \cup {Append(q, x) : q \in {t \in shorter : Len(t) = n - 1}, x \in S}

\* What the runtime reports of the contract's account.  The protocol keeps
\* account_balance + account_locked_balance >= storage_cost.
Env(balance, locked, storage_cost) ==
    [account_balance |-> balance, account_locked_balance |-> locked,
     storage_cost |-> storage_cost]

RichEnv == Env(4 * ONE_NEAR, 0, ONE_NEAR)

\* The report_data field an agent running as account_id puts in its quote: the
\* id itself when it fills the field, the id padded with zero bytes otherwise.
ReportDataOf(account_id) ==
    IF account_id \in ImplicitAccounts THEN <<account_id>> ELSE <<account_id, "0x00">>

\* A docker-compose manifest with the two tagged services, as deployed.
Compose(api, app) ==
    <<"services:", TokNl, TokSpace, TokApi, TokNl, TokSpace, TokImage, TokSpace,
      "repo/api", TokAt, api, TokNl, TokSpace,
      TokApp, TokNl, TokSpace, TokImage, TokSpace, "repo/app", TokAt, app, TokNl>>

\* A manifest with a third, untagged service.
ComposeThree(api, app, extra) ==
    Compose(api, app) \o <<TokSpace, TokImage, "repo/extra", TokAt, extra, TokNl>>

\* A manifest without the app marker.
ComposeNoAppMarker(api, app) ==
    SelectSeq(Compose(api, app), LAMBDA t : t # TokApp)

\* A manifest whose two markers both precede the first image declaration.
ComposeBothFirst(first, second) ==
    <<"services:", TokNl, TokSpace, TokApi, TokNl, TokSpace, TokApp, TokNl, TokSpace,
      TokImage, "repo/one", TokAt, first, TokNl, TokSpace,
      TokImage, "repo/two", TokAt, second, TokNl>>

\* The event log a platform records for a manifest: an earlier event of
\* register 3, an event of another register, and the compose-hash event.
EventLogOf(app_compose) ==
    <<[event |-> "app-id", digest |-> HexEncode(<<"e0">>), imr |-> 3],
      [event |-> "boot", digest |-> HexEncode(<<"e1">>), imr |-> 0],
      [event |-> "compose-hash", digest |-> replay_app_compose(app_compose), imr |-> 3]>>

TcbInfoOf(app_compose) ==
    [json_ok |-> TRUE, event_log |-> EventLogOf(app_compose), app_compose |-> app_compose]

\* rt_mr3 as the hardware measured it for an event log.
Rtmr3Of(event_log) == ReplayFold(event_log, 3, Zero48).val

GoodComposes ==
    {Compose(api, app) : api \in Codehashes, app \in Codehashes}

BadComposes ==
    {ComposeThree("d1", "d2", "d3"), ComposeNoAppMarker("d1", "d2"),
     ComposeBothFirst("d1", "d3")}

GoodCollateral == [wellformed |-> TRUE, next_update |-> NEAR_CLAIM_DURATION]

\* A quote of the agent running as account_id with the manifest app_compose.
QuoteOf(account_id, app_compose) ==
    [hex_ok |-> TRUE, sig_ok |-> TRUE, variant |-> "TD10",
     report_data |-> ReportDataOf(account_id),
     rt_mr3 |-> Rtmr3Of(EventLogOf(app_compose))]

Registration(quote, collateral, tcb_info) ==
    [quote |-> quote, collateral |-> collateral, tcb_info |-> tcb_info]

\* Honest registrations: a genuine quote with its own manifest.  Account a1
\* deploys every manifest, the other accounts the standard one.
HonestRegistrations ==
    {Registration(QuoteOf("a1", c), GoodCollateral, TcbInfoOf(c)) :
        c \in GoodComposes \cup BadComposes}
    \cup {Registration(QuoteOf(a, Compose("d1", "d2")), GoodCollateral,
                       TcbInfoOf(Compose("d1", "d2"))) : a \in Accounts}

\* Registrations with one thing wrong.
FaultyRegistrations ==
    LET c == Compose("d1", "d2")
        q == QuoteOf("a1", c)
        t == TcbInfoOf(c)
    IN  { Registration(q, [GoodCollateral EXCEPT !.wellformed = FALSE], t),
          Registration(q, [GoodCollateral EXCEPT !.next_update = 0], t),
          Registration([q EXCEPT !.hex_ok = FALSE], GoodCollateral, t),
          Registration([q EXCEPT !.sig_ok = FALSE], GoodCollateral, t),
          Registration([q EXCEPT !.variant = "SGX"], GoodCollateral, t),
          Registration([q EXCEPT !.report_data = <<"0xFF">>], GoodCollateral, t),
          Registration([q EXCEPT !.rt_mr3 = Zero48], GoodCollateral, t),
          Registration(q, GoodCollateral, [t EXCEPT !.json_ok = FALSE]),
          Registration(q, GoodCollateral, [t EXCEPT !.app_compose = Compose("d2", "d2")]),
          Registration(q, GoodCollateral,
                       [t EXCEPT !.event_log = SubSeq(t.event_log, 1, 2)]) }

Registrations == HonestRegistrations \cup FaultyRegistrations

Checksums == {"c1"}

---------------------------------------------------------------------------
(* The state machine. *)

Call(op, caller, err, transfer) ==
    [op |-> op, caller |-> caller, err |-> err, transfer |-> transfer]

\* Contract::init(owner_id), at the genesis block
Init ==
    /\ oracles = <<>>
    /\ assets = <<>>
    /\ approved_codehashes = {}
    /\ worker_by_account_id = <<>>
    /\ recency_duration_sec = InitRecencyDurationSec
    /\ near_claim_amount = InitNearClaimAmount
    /\ block_timestamp = 0
    /\ block_height = 0
    /\ last = Call("init", "", "", 0)

\* A new block, dt after the previous one.
NewBlock(dt) ==
    /\ block_height < MaxBlocks
    /\ block_height' = block_height + 1
    /\ block_timestamp' = block_timestamp + dt
    /\ last' = Call("new_block", "", "", 0)
    /\ UNCHANGED <<oracles, assets, approved_codehashes, worker_by_account_id,
                   recency_duration_sec, near_claim_amount>>

\* The end of an external call to report_prices whose handler ended as r: its
\* writes are kept when it returned and dropped when it panicked.
ReportPricesEnds(oracle_id, r) ==
    /\ r.err = "" => r.oracles[oracle_id].price_reports <= MaxPriceReports
    /\ oracles' = IF r.err = "" THEN r.oracles ELSE oracles
    /\ assets' = IF r.err = "" THEN r.assets ELSE assets
    /\ last' = Call("report_prices", oracle_id, r.err,
                    IF r.err = "" THEN r.transfer ELSE 0)
    /\ UNCHANGED <<approved_codehashes, worker_by_account_id, recency_duration_sec,
                   near_claim_amount, block_timestamp, block_height>>

\* An external call to report_prices by oracle_id.
ReportPrices(oracle_id, prices, claim_near, env) ==
    ReportPricesEnds(oracle_id, report_prices(oracle_id, prices, claim_near, env))

\* The end of an external call to register_agent whose handler ended as r.
RegisterAgentEnds(predecessor, r) ==
    /\ oracles' = IF r.err = "" THEN r.oracles ELSE oracles
    /\ last' = Call("register_agent", predecessor, r.err, 0)
    /\ UNCHANGED <<assets, approved_codehashes, worker_by_account_id,
                   recency_duration_sec, near_claim_amount, block_timestamp,
                   block_height>>

\* An external call to register_agent by predecessor.
RegisterAgent(predecessor, reg, checksum) ==
    RegisterAgentEnds(predecessor,
        register_agent(predecessor, reg.quote, reg.collateral, checksum, reg.tcb_info))

\* An external call to clean_oracle_data, by anyone.
CleanOracleData(account_id, asset_ids) ==
    LET r == clean_oracle_data(account_id, asset_ids)
    IN  /\ assets' = IF r.err = "" THEN r.assets ELSE assets
        /\ last' = Call("clean_oracle_data", account_id, r.err, 0)
        /\ UNCHANGED <<oracles, approved_codehashes, worker_by_account_id,
                       recency_duration_sec, near_claim_amount, block_timestamp,
                       block_height>>

(* The owner's administrative calls (owner.rs, not among the sources;        *)
(* modelled from section 6 of the specification and from the calls the tests *)
(* make).  A call that would fail is not taken.                              *)

AddOracle(account_id) ==
    /\ account_id \notin DOMAIN oracles
    /\ oracles' = internal_set_oracle(oracles, account_id, NewOracle)
    /\ last' = Call("add_oracle", account_id, "", 0)
    /\ UNCHANGED <<assets, approved_codehashes, worker_by_account_id,
                   recency_duration_sec, near_claim_amount, block_timestamp,
                   block_height>>

RemoveOracle(account_id) ==
    /\ account_id \in DOMAIN oracles
    /\ oracles' = MapRemove(oracles, account_id)
    /\ last' = Call("remove_oracle", account_id, "", 0)
    /\ UNCHANGED <<assets, approved_codehashes, worker_by_account_id,
                   recency_duration_sec, near_claim_amount, block_timestamp,
                   block_height>>

AddAsset(asset_id, periods) ==
    /\ asset_id \notin DOMAIN assets
    /\ assets' = internal_set_asset(assets, asset_id, NewAsset(periods))
    /\ last' = Call("add_asset", "", "", 0)
    /\ UNCHANGED <<oracles, approved_codehashes, worker_by_account_id,
                   recency_duration_sec, near_claim_amount, block_timestamp,
                   block_height>>

RemoveAsset(asset_id) ==
    /\ asset_id \in DOMAIN assets
    /\ assets' = MapRemove(assets, asset_id)
    /\ last' = Call("remove_asset", "", "", 0)
    /\ UNCHANGED <<oracles, approved_codehashes, worker_by_account_id,
                   recency_duration_sec, near_claim_amount, block_timestamp,
                   block_height>>

\* A callback that gives the cooldown back when the transfer failed.
on_transfer_result_reset(os, receiver, ok) ==
    IF ok THEN os ELSE [os EXCEPT ![receiver].last_near_claim = 0]

\* Line 233: the transfer Promise is created without a callback (no .then), so
\* its result reaches no code of the contract: the oracle map stays as it is.
on_transfer_result(os, receiver, ok) == os

\* The runtime resolves a reward transfer issued to receiver, in the block of
\* the call or in a later one, successfully or not (the receiver's account may
\* be gone).  last_near_claim # 0 records that a transfer was issued.
TransferResolves(receiver, ok) ==
    /\ receiver \in DOMAIN oracles
    /\ oracles[receiver].last_near_claim # 0
    /\ oracles' = on_transfer_result(oracles, receiver, ok)
    /\ last' = Call("transfer_result", receiver, IF ok THEN "" ELSE "transfer failed", 0)
    /\ UNCHANGED <<assets, approved_codehashes, worker_by_account_id,
                   recency_duration_sec, near_claim_amount, block_timestamp,
                   block_height>>

\* update_near_claim_amount(near_claim_amount)
UpdateNearClaimAmount(amount) ==
    /\ amount # near_claim_amount
    /\ near_claim_amount' = amount
    /\ last' = Call("update_near_claim_amount", "", "", 0)
    /\ UNCHANGED <<oracles, assets, approved_codehashes, worker_by_account_id,
                   recency_duration_sec, block_timestamp, block_height>>

ApproveCodehash(codehash) ==
    /\ codehash \notin approved_codehashes
    /\ approved_codehashes' = approved_codehashes \cup {codehash}
    /\ last' = Call("approve_codehash", "", "", 0)
    /\ UNCHANGED <<oracles, assets, worker_by_account_id, recency_duration_sec,
                   near_claim_amount, block_timestamp, block_height>>

RevokeCodehash(codehash) ==
    /\ codehash \in approved_codehashes
    /\ approved_codehashes' = approved_codehashes \ {codehash}
    /\ last' = Call("revoke_codehash", "", "", 0)
    /\ UNCHANGED <<oracles, assets, worker_by_account_id, recency_duration_sec,
                   near_claim_amount, block_timestamp, block_height>>

---------------------------------------------------------------------------
(* Specification of the gate: registration, approval and the admission of  *)
(* reports.  An implicit account registers, with its own quotes and with  *)
(* quotes made for other accounts; it and a named account are added and    *)
(* removed by the owner and report.  One asset, without EMAs, receives the *)
(* reports.                                                                *)

GateCallers == {"a1", "b"}

GateBatches == {<<>>, <<AssetPrice("u", Price(100, 2))>>}

\* The honest registration of account a with a manifest tagging api and app.
HonestRegistration(a, api, app) ==
    Registration(QuoteOf(a, Compose(api, app)), GoodCollateral,
                 TcbInfoOf(Compose(api, app)))

\* The caller's own quote for every pair of digests, and a quote made for
\* another account.
GateRegistrations ==
    {HonestRegistration("a1", api, app) : api \in Codehashes, app \in Codehashes}
    \cup {HonestRegistration("a2", "d1", "d2")}

NextGate ==
    \/ NewBlock(NanosPerSec)
    \/ \E a \in GateCallers, prices \in GateBatches :
          ReportPrices(a, prices, FALSE, RichEnv)
    \/ \E reg \in GateRegistrations, checksum \in Checksums :
          RegisterAgent("a1", reg, checksum)
    \/ \E a \in GateCallers : AddOracle(a)
    \/ \E a \in GateCallers : RemoveOracle(a)
    \/ AddAsset("u", <<>>)
    \/ \E h \in Codehashes : ApproveCodehash(h)
    \/ \E h \in Codehashes : RevokeCodehash(h)

SpecGate == Init /\ [][NextGate]_vars

---------------------------------------------------------------------------
(* Specification of the attestation: every registration, honest or faulty, *)
(* by an implicit account and by a named one, against the owner's changes  *)
(* of the approved set and of the oracle map.  No asset is listed.         *)

NextAttest ==
    \/ NewBlock(NanosPerSec)
    \/ \E a \in GateCallers, reg \in Registrations, checksum \in Checksums :
          RegisterAgent(a, reg, checksum)
    \/ \E a \in GateCallers : AddOracle(a)
    \/ \E a \in GateCallers : RemoveOracle(a)
    \/ \E h \in Codehashes : ApproveCodehash(h)
    \/ \E h \in Codehashes : RevokeCodehash(h)

SpecAttest == Init /\ [][NextAttest]_vars

---------------------------------------------------------------------------
(* Properties of the gate, checked under SpecGate. *)

\* The caller of a report is eligible: it has a record whose codehash is Some
\* and approved.
Eligible(a) ==
    /\ a \in DOMAIN oracles
    /\ IsSome(oracles[a].codehash)
    /\ Unwrap(oracles[a].codehash) \in approved_codehashes

C2_ApprovalRecheckedOnEveryReport ==
    [][ ( /\ last'.op = "report_prices"
          /\ last'.caller \in DOMAIN oracles
          /\ IsSome(oracles[last'.caller].codehash)
          /\ oracles[last'.caller].price_reports > 0 )
        => \A prices \in GateBatches \ {<<>>} :
              ReportPrices(last'.caller, prices, FALSE, RichEnv)
              => /\ last'.err = ""
                    <=> Unwrap(oracles[last'.caller].codehash) \in approved_codehashes
                 /\ last'.err # "" => /\ last'.caller \in DOMAIN oracles'
                                      /\ oracles'[last'.caller] = oracles[last'.caller]
      ]_vars

\* C2 witness: an oracle that had reported was rejected after its codehash was
\* revoked, its record still on record.
C2_Witness ==
    /\ last.op = "report_prices"
    /\ last.err = "Oracle codehash is not approved"
    /\ last.caller \in DOMAIN oracles
    /\ oracles[last.caller].price_reports > 0

\* C3: a register_agent call by an account that already has an Oracle record is
\* rejected and leaves the oracle map unchanged.
C3_RegistrationIsOneShot ==
    [][ (last'.op = "register_agent" /\ last'.caller \in DOMAIN oracles)
          => last'.err # "" /\ oracles' = oracles ]_vars

\* C3 witness: a registration that passed every other check was rejected because
\* the caller was already registered through register_agent.
C3_Witness ==
    /\ last.op = "register_agent"
    /\ last.err = "Oracle already exists"
    /\ IsSome(oracles[last.caller].codehash)

\* C4: a successful register_agent creates a record only for the account that
\* equals the quote's report-data.
C4_QuoteBoundToCaller ==
    [][ (last'.op = "register_agent" /\ last'.err = "")
        => \A reg \in Registrations, checksum \in Checksums :
              RegisterAgent(last'.caller, reg, checksum)
              => /\ Utf8Lossy(reg.quote.report_data) = AccountIdStr(last'.caller)
                 /\ DOMAIN oracles' = DOMAIN oracles \cup {last'.caller} ]_vars

\* C4 witness: a call whose caller differs from the report-data was rejected.
C4_Witness ==
    /\ last.op = "register_agent"
    /\ last.err = "predecessor_account_id != report_data"

\* C5: register_agent succeeds only if the API image digest and the application
\* image digest of the manifest are both approved.
C5_BothDigestsApproved ==
    [][ (last'.op = "register_agent" /\ last'.err = "")
        => \A api \in Codehashes, app \in Codehashes, checksum \in Checksums :
              RegisterAgent(last'.caller, HonestRegistration(last'.caller, api, app),
                            checksum)
              => api \in approved_codehashes /\ app \in approved_codehashes ]_vars

\* C5 witness: a registration was rejected for its API image while some
\* codehash was approved.
C5_Witness ==
    /\ last.op = "register_agent"
    /\ last.err = "api image is not approved"
    /\ approved_codehashes # {}

\* C6: after a successful register_agent by account A, A's record has codehash =
\* Some(application image digest) and checksum = Some(the supplied checksum), and
\* A is eligible: a non-empty report of valid prices by an account holding such
\* a record is accepted whenever that digest is approved at the time of the call.
C6_RegisteredOracleIsEligible ==
    [][ /\ (last'.op = "register_agent" /\ last'.err = "")
           => \A api \in Codehashes, app \in Codehashes, checksum \in Checksums :
                 RegisterAgent(last'.caller, HonestRegistration(last'.caller, api, app),
                               checksum)
                 => /\ last'.caller \in DOMAIN oracles'
                    /\ oracles'[last'.caller].codehash = Some(app)
                    /\ oracles'[last'.caller].checksum = Some(checksum)
                    /\ app \in approved_codehashes'
        /\ (last'.op = "report_prices" /\ Eligible(last'.caller))
           => \A prices \in GateBatches \ {<<>>} :
                 ReportPrices(last'.caller, prices, FALSE, RichEnv)
                 => /\ last'.err = ""
                    /\ oracles'[last'.caller].price_reports
                          = oracles[last'.caller].price_reports + Len(prices)
      ]_vars

\* C6 witness: the first report of an account registered with application digest
\* d2 and checksum c1 was accepted.
C6_Witness ==
    /\ last.op = "report_prices"
    /\ last.err = ""
    /\ oracles[last.caller].codehash = Some("d2")
    /\ oracles[last.caller].checksum = Some("c1")
    /\ oracles[last.caller].price_reports = 1

---------------------------------------------------------------------------
(* Properties of the attestation, checked under SpecAttest. *)

\* A handler that ended as r in a panic has written nothing to the oracle map.
NoPartialWrite(r) == r.err # "" => r.oracles = oracles

\* C7: a register_agent call that fails at any step leaves no partial state.
\* The oracle map as the handler has written it when it panics is the map it
\* started from (the only write is the final persist), and after the call the
\* oracle map, the worker map, the approved set and the assets are unchanged.
C7_FailedRegistrationLeavesNoPartialState ==
    /\ [](\A a \in GateCallers, reg \in Registrations, checksum \in Checksums :
            NoPartialWrite(register_agent(a, reg.quote, reg.collateral, checksum,
                                          reg.tcb_info)))
    /\ [][ (last'.op = "register_agent" /\ last'.err # "")
           => /\ oracles' = oracles
              /\ worker_by_account_id' = worker_by_account_id
              /\ approved_codehashes' = approved_codehashes
              /\ assets' = assets ]_vars

\* C7 witness: a registration failed at the approval of the application image,
\* after every earlier step had passed, with another account on record.
C7_Witness ==
    /\ last.op = "register_agent"
    /\ last.err = "app image is not approved"
    /\ last.caller \notin DOMAIN oracles
    /\ oracles # <<>>

\* C8: after every successful register_agent by an account, the worker map holds
\* for that account a Worker with the checksum and the codehash of the attested
\* binary, so get_agent(account) returns it.
C8_RegisteredAgentHasWorker ==
    (last.op = "register_agent" /\ last.err = "")
    => /\ get_agent(last.caller).ok
       /\ Some(get_agent(last.caller).val.checksum) = oracles[last.caller].checksum
       /\ Some(get_agent(last.caller).val.codehash) = oracles[last.caller].codehash

---------------------------------------------------------------------------
(* Specification of the ledger: two registered reporters and an oracle the *)
(* owner adds and removes; batches of prices of one asset, reported before *)
(* and after the owner lists it; blocks one nanosecond or one recency      *)
(* window apart.                                                           *)

LedgerReporters == {"a1", "a2"}

LedgerEntries == {AssetPrice("u", p) : p \in ValidPrices}

LedgerBatches == SeqsUpTo(LedgerEntries, MaxBatch) \ {<<>>}

NextLedger ==
    \/ \E dt \in {1, to_nano(InitRecencyDurationSec)} : NewBlock(dt)
    \/ \E a \in LedgerReporters, prices \in LedgerBatches :
          ReportPrices(a, prices, FALSE, RichEnv)
    \/ \E a \in LedgerReporters :
          RegisterAgent(a, HonestRegistration(a, "d2", "d2"), "c1")
    \/ AddOracle("b")
    \/ RemoveOracle("b")
    \/ AddAsset("u", <<>>)
    \/ ApproveCodehash("d2")

SpecLedger == Init /\ [][NextLedger]_vars

---------------------------------------------------------------------------
(* Specification of the replacement of reports: the two registered         *)
(* reporters and their batches alone, over blocks one nanosecond apart.    *)

NextReplace ==
    \/ NewBlock(1)
    \/ \E a \in LedgerReporters, prices \in LedgerBatches :
          ReportPrices(a, prices, FALSE, RichEnv)
    \/ \E a \in LedgerReporters :
          RegisterAgent(a, HonestRegistration(a, "d2", "d2"), "c1")
    \/ AddAsset("u", <<>>)
    \/ ApproveCodehash("d2")

SpecReplace == Init /\ [][NextReplace]_vars

\* Three attested reporters of one asset with an hourly Ema, each with a price
\* of its own; blocks are one recency window apart.
MedianReporters == {"a1", "a2", "a3"}

MedianBatch(a) == <<AssetPrice("u", IF a = "a3" THEN Price(100, 2) ELSE Price(2, 0))>>

NextMedian ==
    \/ NewBlock(to_nano(InitRecencyDurationSec))
    \/ \E a \in MedianReporters : ReportPrices(a, MedianBatch(a), FALSE, RichEnv)
    \/ \E a \in MedianReporters :
          RegisterAgent(a, HonestRegistration(a, "d2", "d2"), "c1")
    \/ AddAsset("u", <<3600>>)
    \/ ApproveCodehash("d2")

SpecMedian == Init /\ [][NextMedian]_vars

\* Two attested reporters and an oracle added by the owner, which never
\* reports but counts for the quorum; one asset with an hourly Ema.
QuorumReporters == {"a1", "a2"}

NextQuorum ==
    \/ NewBlock(to_nano(InitRecencyDurationSec))
    \/ \E a \in QuorumReporters, p \in ValidPrices :
          ReportPrices(a, <<AssetPrice("u", p)>>, FALSE, RichEnv)
    \/ \E a \in QuorumReporters :
          RegisterAgent(a, HonestRegistration(a, "d2", "d2"), "c1")
    \/ AddOracle("b")
    \/ AddAsset("u", <<3600>>)
    \/ ApproveCodehash("d2")

\* The ids of a query: the listed asset "u", the unknown asset "v", the hourly
\* Ema of "u", an Ema "u" does not have, an Ema of the unknown asset, and an
\* id whose period is no number.
QueryTexts ==
    { <<"u">>, <<"v">>, <<"u", "#", "3", "6", "0", "0">>, <<"u", "#", "6", "0">>,
      <<"v", "#", "3", "6", "0", "0">>, <<"u", "#", "x">> }

\* The requests drawn: up to MaxBatch ids.
QueryRequests == SeqsUpTo(QueryTexts, MaxBatch)

SpecQuorum == Init /\ [][NextQuorum]_vars

\* One attested reporter and batches that mix the listed asset "u", the unknown
\* asset "v" and a price whose decimals exceed the bound; blocks are one
\* claim period apart.
BatchEntries ==
    {AssetPrice("u", p) : p \in ValidPrices}
       \cup {AssetPrice("v", Price(2, 0))}
       \cup {AssetPrice(id, InvalidPrice) : id \in AssetIds}

BatchBatches == SeqsUpTo(BatchEntries, MaxBatch)

NextBatch ==
    \/ NewBlock(NEAR_CLAIM_DURATION)
    \/ \E prices \in BatchBatches, claim_near \in BOOLEAN :
          ReportPrices("a1", prices, claim_near, RichEnv)
    \/ RegisterAgent("a1", HonestRegistration("a1", "d2", "d2"), "c1")
    \/ AddAsset("u", <<3600>>)
    \/ ApproveCodehash("d2")
    \/ RevokeCodehash("d2")

SpecBatch == Init /\ [][NextBatch]_vars

\* Two attested reporters that claim rewards under different balances of the
\* contract's account; blocks are one claim period apart.
ClaimReporters == {"a1", "a2"}

\* Liquid balances of 3, 2, 5 and 2.75 NEAR, the last with 1.5 NEAR locked.
ClaimEnvs ==
    {RichEnv, Env(3 * ONE_NEAR, 0, ONE_NEAR), Env(6 * ONE_NEAR, 0, ONE_NEAR),
     Env(6, 6, 1)}

NextClaim ==
    \/ NewBlock(NEAR_CLAIM_DURATION)
    \/ \E a \in ClaimReporters :
          ReportPrices(a, <<AssetPrice("u", Price(2, 0))>>, FALSE, RichEnv)
    \/ \E a \in ClaimReporters, env \in ClaimEnvs :
          ReportPrices(a, <<AssetPrice("u", Price(2, 0))>>, TRUE, env)
    \/ \E a \in ClaimReporters :
          RegisterAgent(a, HonestRegistration(a, "d2", "d2"), "c1")
    \/ AddAsset("u", <<>>)
    \/ ApproveCodehash("d2")
    \/ UpdateNearClaimAmount(2 * ONE_NEAR)

SpecClaim == Init /\ [][NextClaim]_vars

\* One reporter attested with a manifest whose two images differ (API image
\* d1, application image d2), and an owner that approves and revokes both.
RevokeBatch == <<AssetPrice("u", Price(100, 2))>>

NextRevoke ==
    \/ NewBlock(NanosPerSec)
    \/ ReportPrices("a1", RevokeBatch, FALSE, RichEnv)
    \/ RegisterAgent("a1", HonestRegistration("a1", "d1", "d2"), "c1")
    \/ AddAsset("u", <<>>)
    \/ \E h \in Codehashes : ApproveCodehash(h)
    \/ \E h \in Codehashes : RevokeCodehash(h)

SpecRevoke == Init /\ [][NextRevoke]_vars

\* Two attested reporters and two listed assets, "u" with an hourly Ema and
\* "v" without.  The first reporter names "u" or "v"; the second names "u",
\* alone or together with the unknown asset "w", and claims its reward.
FrameReporters == {"a1", "a2"}

FrameBatches(a) ==
    IF a = "a1"
    THEN { <<AssetPrice("u", Price(100, 2))>>, <<AssetPrice("v", Price(100, 2))>> }
    ELSE { <<AssetPrice("u", Price(2, 0))>>,
           <<AssetPrice("u", Price(2, 0)), AssetPrice("w", Price(2, 0))>> }

FrameClaims(a) == {a = "a2"}

NextFrame ==
    \/ NewBlock(NEAR_CLAIM_DURATION)
    \/ \E a \in FrameReporters : \E prices \in FrameBatches(a), claim_near \in FrameClaims(a) :
          ReportPrices(a, prices, claim_near, RichEnv)
    \/ \E a \in FrameReporters :
          RegisterAgent(a, HonestRegistration(a, "d2", "d2"), "c1")
    \/ AddAsset("u", <<3600>>)
    \/ AddAsset("v", <<>>)
    \/ ApproveCodehash("d2")

SpecFrame == Init /\ [][NextFrame]_vars

\* Two attested reporters of "u" (with an hourly Ema) and "v"; the first is
\* removed by the owner, and anyone asks for the data of either to be
\* cleaned, in listed assets and in the unknown asset "w".
CleanReporters == {"a1", "a2"}

CleanBatches(a) ==
    IF a = "a1"
    THEN { <<AssetPrice("u", Price(100, 2))>>, <<AssetPrice("v", Price(100, 2))>> }
    ELSE { <<AssetPrice("u", Price(2, 0))>> }

CleanLists == { <<"u">>, <<"v", "u">>, <<"u", "w">> }

NextClean ==
    \/ NewBlock(to_nano(InitRecencyDurationSec))
    \/ \E a \in CleanReporters : \E prices \in CleanBatches(a) :
          ReportPrices(a, prices, FALSE, RichEnv)
    \/ \E a \in CleanReporters :
          RegisterAgent(a, HonestRegistration(a, "d2", "d2"), "c1")
    \/ RemoveOracle("a1")
    \/ \E a \in CleanReporters, asset_ids \in CleanLists : CleanOracleData(a, asset_ids)
    \/ AddAsset("u", <<3600>>)
    \/ AddAsset("v", <<>>)
    \/ ApproveCodehash("d2")

SpecClean == Init /\ [][NextClean]_vars

\* One attested reporter that claims its reward, and the later result of the
\* transfer.
NextTransfer ==
    \/ NewBlock(NEAR_CLAIM_DURATION)
    \/ \E p \in ValidPrices, claim_near \in BOOLEAN :
          ReportPrices("a1", <<AssetPrice("u", p)>>, claim_near, RichEnv)
    \/ RegisterAgent("a1", HonestRegistration("a1", "d2", "d2"), "c1")
    \/ AddAsset("u", <<3600>>)
    \/ ApproveCodehash("d2")
    \/ \E ok \in BOOLEAN : TransferResolves("a1", ok)

SpecTransfer == Init /\ [][NextTransfer]_vars

\* Three attested reporters whose prices meet in the reports of one asset and
\* are compared there.  The first reports zero or 4, the second zero at one
\* decimal, 4 in its other encoding 40/10, or 10^-38, the third zero at 39
\* decimals or 10^-77: the decimals are 1, 37, 38, 39 and 77 apart.
ComparePrices(a) ==
    CASE a = "a1" -> {Price(0, 0), Price(4, 0)}
      [] a = "a2" -> {Price(0, 1), Price(40, 1), Price(1, 38)}
      [] OTHER    -> {Price(0, 39), Price(1, MAX_VALID_DECIMALS)}

NextCompare ==
    \/ \E a \in MedianReporters :
          \E p \in ComparePrices(a) :
              ReportPrices(a, <<AssetPrice("u", p)>>, FALSE, RichEnv)
    \/ \E a \in MedianReporters :
          RegisterAgent(a, HonestRegistration(a, "d2", "d2"), "c1")
    \/ AddAsset("u", <<3600>>)
    \/ ApproveCodehash("d2")

SpecCompare == Init /\ [][NextCompare]_vars

\* The replay on its own: logs of up to MaxEvents events drawn from two events
\* of register 3 with different digests (one in upper-case hex), an event of
\* register 0, events of both registers whose digest is no hex, an event with
\* imr 259 and one whose imr is no unsigned number.
Event(digest, imr) == [event |-> "event", digest |-> digest, imr |-> imr]

ReplayEvents ==
    { Event(HexEncode(<<"e1">>), 3), Event(<<"upper", <<"e2">>>>, 3),
      Event(HexEncode(<<"e1">>), 0),
      Event(<<"bad", <<>>>>, 3), Event(<<"bad", <<>>>>, 0),
      Event(HexEncode(<<"e2">>), 259), Event(HexEncode(<<"e1">>), -1) }

ReplayLogs == SeqsUpTo(ReplayEvents, MaxEvents)

\* The registers replayed.
ReplayRegisters == {0, 3}

\* A call of replay_rtmr(event_log, imr): the log, the register and the
\* outcome are recorded; the contract's state is not touched.
ReplayRtmr(event_log, imr) ==
    /\ last' = [event_log |-> event_log, imr |-> imr,
                result |-> replay_rtmr(event_log, imr).val]
                @@ Call("replay_rtmr", "", replay_rtmr(event_log, imr).err, 0)
    /\ UNCHANGED <<oracles, assets, approved_codehashes, worker_by_account_id,
                   recency_duration_sec, near_claim_amount, block_timestamp,
                   block_height>>

NextReplay == \E event_log \in ReplayLogs, imr \in ReplayRegisters : ReplayRtmr(event_log, imr)

SpecReplay == Init /\ [][NextReplay]_vars

\* The verification of a manifest on its own.  The manifests: the standard
\* one, the same with the application block first, and manifests with a
\* third, untagged image, without one of the markers, with both markers
\* before the first image, without "@sha256:" in the application's image
\* line, and without an image after the application marker.
ComposeAppFirst(api, app) ==
    <<"services:", TokNl, TokSpace, TokApp, TokNl, TokSpace, TokImage, TokSpace,
      "repo/app", TokAt, app, TokNl, TokSpace,
      TokApi, TokNl, TokSpace, TokImage, TokSpace, "repo/api", TokAt, api, TokNl>>

ComposeNoApiMarker(api, app) ==
    SelectSeq(Compose(api, app), LAMBDA t : t # TokApi)

ComposeNoSeparator(api, app) ==
    <<"services:", TokNl, TokSpace, TokApi, TokNl, TokSpace, TokImage, TokSpace,
      "repo/api", TokAt, api, TokNl, TokSpace,
      TokApp, TokNl, TokSpace, TokImage, TokSpace, "repo/app", ":", app, TokNl>>

ComposeNoAppImage(api, extra) ==
    <<"services:", TokNl, TokSpace, TokImage, "repo/extra", TokAt, extra, TokNl, TokSpace,
      TokApi, TokNl, TokSpace, TokImage, TokSpace, "repo/api", TokAt, api, TokNl, TokSpace,
      TokApp, TokNl>>

VerifyComposes ==
    { Compose("d1", "d2"), ComposeAppFirst("d1", "d2"), ComposeThree("d1", "d2", "d3"),
      ComposeNoAppMarker("d1", "d2"), ComposeNoApiMarker("d1", "d2"),
      Compose("d3", "d1"), ComposeBothFirst("d1", "d3"), ComposeNoSeparator("d1", "d2"),
      ComposeNoAppImage("d1", "d3") }

\* A log that names the manifest in a compose-hash event of register 0, put
\* before the log the platform recorded for the manifest measured.
SplicedLog(app_compose, measured) ==
    <<[event |-> "compose-hash", digest |-> replay_app_compose(app_compose), imr |-> 0]>>
    \o EventLogOf(measured)

\* The logs presented with a manifest: the one the platform recorded for it,
\* the one recorded for the standard manifest, that one with this manifest
\* spliced in front, and the platform's log without its compose-hash event.
VerifyLogs(app_compose) ==
    { EventLogOf(app_compose), EventLogOf(Compose("d1", "d2")),
      SplicedLog(app_compose, Compose("d1", "d2")),
      SubSeq(EventLogOf(app_compose), 1, 2) }

\* The register values a quote may carry: the one measured for this manifest,
\* the one measured for the standard manifest, and the reset value.
VerifyRtmr3s(app_compose) ==
    { HexEncode(Rtmr3Of(EventLogOf(app_compose))),
      HexEncode(Rtmr3Of(EventLogOf(Compose("d1", "d2")))),
      HexEncode(Zero48) }

\* A call of verify_codehash(raw_tcb_info, rtmr3): the arguments and the
\* outcome are recorded; the contract's state is not touched.
VerifyCodehash(tcb_info, rtmr3) ==
    /\ last' = [tcb_info |-> tcb_info, rtmr3 |-> rtmr3,
                result |-> verify_codehash(tcb_info, rtmr3).val]
                @@ Call("verify_codehash", "", verify_codehash(tcb_info, rtmr3).err, 0)
    /\ UNCHANGED <<oracles, assets, approved_codehashes, worker_by_account_id,
                   recency_duration_sec, near_claim_amount, block_timestamp,
                   block_height>>

\* The calls drawn: every manifest with each of its logs and register values,
\* as a JSON document and as a text that is no JSON.
VerifyInputs ==
    UNION { { [tcb_info |-> [json_ok |-> json_ok, event_log |-> event_log,
                             app_compose |-> app_compose],
               rtmr3 |-> rtmr3] :
                event_log \in VerifyLogs(app_compose),
                rtmr3 \in VerifyRtmr3s(app_compose),
                json_ok \in BOOLEAN } : app_compose \in VerifyComposes }

NextVerify == \E input \in VerifyInputs : VerifyCodehash(input.tcb_info, input.rtmr3)

SpecVerify == Init /\ [][NextVerify]_vars

---------------------------------------------------------------------------
(* Properties of the ledger: C9 is checked under SpecReplace, C10 under  *)
(* SpecLedger.                                                          *)

\* The reports of oracle_id on an asset.
ReportsOf(asset, oracle_id) ==
    SelectSeq(asset.reports, LAMBDA r : r.oracle_id = oracle_id)

\* The price of the last entry of a batch that names asset_id.
RECURSIVE LastPriceFor(_, _)
LastPriceFor(prices, asset_id) ==
    IF prices[Len(prices)].asset_id = asset_id THEN prices[Len(prices)].price
    ELSE LastPriceFor(SubSeq(prices, 1, Len(prices) - 1), asset_id)

\* C9: in every reachable state every asset holds at most one Report per
\* oracle_id.  An accepted report replaces the reporter's report on every listed
\* asset the batch names by one report with the new timestamp and the price of
\* the batch's last entry for that asset, also when the batch names the asset
\* more than once, and leaves the other oracles' reports as they were.
C9_AtMostOneReportPerOracle ==
    /\ [](\A id \in DOMAIN assets, a \in Accounts : Len(ReportsOf(assets[id], a)) <= 1)
    /\ [][ (last'.op = "report_prices" /\ last'.err = "")
           => \A prices \in LedgerBatches :
                 ReportPrices(last'.caller, prices, FALSE, RichEnv)
                 => \A id \in DOMAIN assets :
                       /\ \A a \in Accounts \ {last'.caller} :
                             ReportsOf(assets'[id], a) = ReportsOf(assets[id], a)
                       /\ IF \E i \in 1..Len(prices) : prices[i].asset_id = id
                          THEN ReportsOf(assets'[id], last'.caller)
                                  = <<Report(last'.caller, block_timestamp,
                                             LastPriceFor(prices, id))>>
                          ELSE ReportsOf(assets'[id], last'.caller)
                                  = ReportsOf(assets[id], last'.caller)
         ]_vars

\* C9 witness: an oracle's second accepted report on an asset, made at a later
\* timestamp than its first, with another oracle's report on the same asset.
C9_Witness ==
    /\ last.op = "report_prices"
    /\ last.err = ""
    /\ oracles[last.caller].price_reports = 2
    /\ block_timestamp > 0
    /\ "u" \in DOMAIN assets
    /\ Len(assets["u"].reports) = 2
    /\ ReportsOf(assets["u"], last.caller)
          = <<Report(last.caller, block_timestamp, Price(2, 0))>>

\* The quorum for n registered oracles: half of them rounded up, and at least one.
Quorum(n) == CHOOSE k \in 1..(n + 1) : 2 * k >= n /\ \A j \in 1..(k - 1) : 2 * j < n

\* The number of an asset's reports with timestamp >= now - recency_duration.
QualifyingReports(asset) ==
    Cardinality({i \in 1..Len(asset.reports) :
        asset.reports[i].timestamp >= block_timestamp - to_nano(recency_duration_sec)})

\* C10: for a listed asset addressed by its plain id, get_price_data returns a
\* present price if and only if the number of its reports with timestamp >=
\* now - recency_duration is at least the quorum; a present price is the price
\* of one of the qualifying reports.
C10_PricePresentIffQuorum ==
    \A id \in DOMAIN assets :
        /\ IsSome(PlainPrice(id))
              <=> QualifyingReports(assets[id]) >= Quorum(MapLen(oracles))
        /\ IsSome(PlainPrice(id))
              => \E i \in 1..Len(assets[id].reports) :
                    /\ assets[id].reports[i].timestamp
                          >= block_timestamp - to_nano(recency_duration_sec)
                    /\ assets[id].reports[i].price = Unwrap(PlainPrice(id))

\* C10 witness: three oracles on record, an asset with one qualifying report and
\* one report older than the recency window, and no price.
C10_Witness ==
    /\ MapLen(oracles) = 3
    /\ "u" \in DOMAIN assets
    /\ Len(assets["u"].reports) = 2
    /\ QualifyingReports(assets["u"]) = 1
    /\ PlainPrice("u") = None

\* max(1, ceil((n + 1) / 2)): a strict majority of n oracles.
MajorityQuorum(n) == IF (n + 2) \div 2 > 1 THEN (n + 2) \div 2 ELSE 1

\* max(1, floor((n + 1) / 2)): half of n oracles rounded up, and at least one.
HalfQuorum(n) == IF n <= 1 THEN 1 ELSE n - (n \div 2)

\* C11 as stated: the minimum number of qualifying reports used by report_prices
\* and by get_price_data equals max(1, ceil((n + 1) / 2)) for n oracles on
\* record, a majority of them.
C11_QuorumIsMajority ==
    /\ min_num_recent_reports(oracles) = MajorityQuorum(MapLen(oracles))
    /\ 2 * min_num_recent_reports(oracles) > MapLen(oracles)

\* C11 amended: the minimum number of qualifying reports equals
\* max(1, floor((n + 1) / 2)) for n oracles on record, which is half of them
\* rounded up and not a strict majority when n is even.  get_price_data returns
\* a price exactly from that many qualifying reports on, and an accepted
\* report_prices stamps the reported asset's Emas with the current timestamp
\* from that many qualifying reports on and leaves them as they were below it.
C11_QuorumIsHalfRoundedUp ==
    /\ [](/\ min_num_recent_reports(oracles) = HalfQuorum(MapLen(oracles))
          /\ \A id \in DOMAIN assets :
                IsSome(PlainPrice(id))
                   <=> QualifyingReports(assets[id]) >= HalfQuorum(MapLen(oracles)))
    /\ [][ (last'.op = "report_prices" /\ last'.err = "" /\ "u" \in DOMAIN assets)
           => /\ \E r \in SeqToSet(assets'["u"].reports) :
                    r.oracle_id = last'.caller /\ r.timestamp = block_timestamp
              /\ IF QualifyingReports(assets'["u"]) >= HalfQuorum(MapLen(oracles))
                 THEN \A i \in 1..Len(assets'["u"].emas) :
                         /\ assets'["u"].emas[i].timestamp = block_timestamp
                         /\ IsSome(assets'["u"].emas[i].price)
                 ELSE assets'["u"].emas = assets["u"].emas
         ]_vars

\* C11 witness: two oracles on record and an asset with one qualifying report
\* and one report older than the recency window; the price is present and the
\* Ema was stamped by the report just accepted.
C11_Witness ==
    /\ last.op = "report_prices"
    /\ last.err = ""
    /\ MapLen(oracles) = 2
    /\ "u" \in DOMAIN assets
    /\ Len(assets["u"].reports) = 2
    /\ QualifyingReports(assets["u"]) = 1
    /\ IsSome(PlainPrice("u"))
    /\ assets["u"].emas[1].timestamp = block_timestamp
    /\ block_timestamp > 0

\* The indices of an asset's reports with timestamp >= now - recency_duration.
QualifyingIndices(asset) ==
    {i \in 1..Len(asset.reports) :
        asset.reports[i].timestamp >= block_timestamp - to_nano(recency_duration_sec)}

\* The number of an asset's qualifying reports whose price compares as ord to p.
CountOrdered(asset, p, ord) ==
    Cardinality({i \in QualifyingIndices(asset) :
                    partial_cmp(asset.reports[i].price, p) = ord})

\* p is the price of a qualifying report that has at most half of the
\* qualifying reports strictly below it and at most half strictly above it.
IsMiddlePrice(asset, p) ==
    /\ \E i \in QualifyingIndices(asset) : asset.reports[i].price = p
    /\ 2 * CountOrdered(asset, p, "Less") <= Cardinality(QualifyingIndices(asset))
    /\ 2 * CountOrdered(asset, p, "Greater") <= Cardinality(QualifyingIndices(asset))

\* C12: when quorum is met, the median get_price_data returns for an asset is
\* the price of one of its qualifying reports, one at a middle position of the
\* qualifying reports in Price order (never an average or a price no qualifying
\* oracle reported), and report_prices feeds the Emas the same choice: an Ema
\* that receives its first price holds the median get_price_data returns.
C12_MedianIsMiddleReport ==
    /\ [](\A id \in DOMAIN assets :
             IsSome(PlainPrice(id)) => IsMiddlePrice(assets[id], Unwrap(PlainPrice(id))))
    /\ [][ (/\ last'.op = "report_prices" /\ last'.err = ""
            /\ "u" \in DOMAIN assets
            /\ assets["u"].emas[1].price = None
            /\ assets'["u"].emas[1].price # None)
           => /\ assets'["u"].emas[1].price = PlainPrice("u")'
              /\ IsMiddlePrice(assets'["u"], Unwrap(assets'["u"].emas[1].price))
         ]_vars

\* C12 witness: three qualifying reports, two of the higher price and one of the
\* lower; the median is the higher price, which the just accepted report fed to the Ema.
C12_Witness ==
    /\ last.op = "report_prices"
    /\ last.err = ""
    /\ "u" \in DOMAIN assets
    /\ Cardinality(QualifyingIndices(assets["u"])) = 3
    /\ CountOrdered(assets["u"], Price(2, 0), "Less") = 1
    /\ PlainPrice("u") = Some(Price(2, 0))
    /\ assets["u"].emas[1].price = Some(Price(2, 0))
    /\ assets["u"].emas[1].timestamp = block_timestamp

\* The median get_price_data computes in the current block from an asset record.
MedianOf(asset) ==
    median_price(asset, timestamp_cut(block_timestamp, recency_duration_sec),
                 min_num_recent_reports(oracles))

\* C13: an accepted report_prices stores the caller's report on the reported
\* asset whatever the quorum.  When the asset's qualifying reports, the new one
\* included, are fewer than the quorum, every Ema of the asset keeps its price
\* and its timestamp; otherwise every Ema is recomputed from the median of the
\* qualifying reports and the current timestamp.
C13_EmasUnchangedBelowQuorum ==
    [][ (last'.op = "report_prices" /\ last'.err = "" /\ "u" \in DOMAIN assets)
        => /\ \E i \in QualifyingIndices(assets'["u"]) :
                 /\ assets'["u"].reports[i].oracle_id = last'.caller
                 /\ assets'["u"].reports[i].timestamp = block_timestamp
           /\ Len(assets'["u"].emas) = Len(assets["u"].emas)
           /\ IF Cardinality(QualifyingIndices(assets'["u"])) < HalfQuorum(MapLen(oracles))
              THEN /\ assets'["u"].emas = assets["u"].emas
                   /\ MedianOf(assets'["u"]) = None
              ELSE /\ IsSome(MedianOf(assets'["u"]))
                   /\ \A i \in 1..Len(assets["u"].emas) :
                         assets'["u"].emas[i]
                            = EmaRecompute(assets["u"].emas[i],
                                           Unwrap(MedianOf(assets'["u"])), block_timestamp)
      ]_vars

\* C13 witness: three oracles on record; the report just accepted is the asset's
\* only qualifying one, next to a report older than the recency window, and the
\* Ema still holds the price and the timestamp of an earlier round.
C13_Witness ==
    /\ last.op = "report_prices"
    /\ last.err = ""
    /\ MapLen(oracles) = 3
    /\ "u" \in DOMAIN assets
    /\ Len(assets["u"].reports) = 2
    /\ Cardinality(QualifyingIndices(assets["u"])) = 1
    /\ \E i \in QualifyingIndices(assets["u"]) :
          assets["u"].reports[i].oracle_id = last.caller
    /\ IsSome(assets["u"].emas[1].price)
    /\ assets["u"].emas[1].timestamp < block_timestamp

---------------------------------------------------------------------------
(* Properties of a batch, checked under SpecBatch. *)

\* The step is an accepted report_prices call.
AcceptedReport == last'.op = "report_prices" /\ last'.err = ""

\* Every price of the batch has at most MAX_VALID_DECIMALS decimals.
AllDecimalsValid(prices) ==
    \A i \in 1..Len(prices) : prices[i].price.decimals <= MAX_VALID_DECIMALS

\* The batch names asset_id.
Names(prices, asset_id) == \E i \in 1..Len(prices) : prices[i].asset_id = asset_id

\* The handler's result r on a batch with a pair for an unknown asset: accepted,
\* the same assets listed, the caller's report on every listed asset the batch
\* names, and every other listed asset as it was.
UnknownSkipped(oracle_id, prices, r) ==
    /\ r.err = ""
    /\ DOMAIN r.assets = DOMAIN assets
    /\ \A id \in DOMAIN assets :
          IF Names(prices, id)
          THEN ReportsOf(r.assets[id], oracle_id)
                  = <<Report(oracle_id, block_timestamp, LastPriceFor(prices, id))>>
          ELSE r.assets[id] = assets[id]

\* C14: a report_prices batch of an eligible caller with valid prices and a pair
\* for an unknown asset is accepted: the set of listed assets stays the same (no
\* entry is created for the unknown id), every listed asset the batch names
\* holds the caller's report with the call's timestamp and the batch's last
\* price for it, and every listed asset the batch does not name is unchanged.
\* No accepted call changes the set of listed assets.
C14_UnknownAssetIsSkipped ==
    /\ [](Eligible("a1")
            => \A prices \in BatchBatches \ {<<>>}, claim_near \in BOOLEAN :
                  (/\ AllDecimalsValid(prices)
                   /\ \E i \in 1..Len(prices) : prices[i].asset_id \notin DOMAIN assets)
                  => UnknownSkipped("a1", prices,
                                    report_prices("a1", prices, claim_near, RichEnv)))
    /\ [][ AcceptedReport => DOMAIN assets' = DOMAIN assets ]_vars

\* C14 witness: the oracle's only accepted call so far held one pair, "u" was
\* listed before it and holds no report, so the pair named the unknown "v" and
\* was skipped; in this state a batch of "v" and "u" is accepted too, stores the
\* report on "u" and creates no entry for "v".
C14_Witness ==
    /\ last.op = "report_prices"
    /\ last.err = ""
    /\ oracles[last.caller].price_reports = 1
    /\ "u" \in DOMAIN assets
    /\ "v" \notin DOMAIN assets
    /\ assets["u"].reports = <<>>
    /\ report_prices(last.caller,
                     <<AssetPrice("v", Price(2, 0)), AssetPrice("u", Price(2, 0))>>,
                     FALSE, RichEnv)
          = [err |-> "",
             oracles |-> [oracles EXCEPT ![last.caller].price_reports = 3,
                                         ![last.caller].last_report = block_timestamp],
             assets |-> [assets EXCEPT !["u"] =
                           UpdateAsset(assets["u"], oracles, last.caller,
                                       block_timestamp, Price(2, 0),
                                       recency_duration_sec)],
             transfer |-> 0,
             writes |-> 2]

\* C15: a report_prices batch with a price of more than MAX_VALID_DECIMALS
\* decimals at any position, for a listed or an unknown asset, is fatal, and a
\* fatal call leaves no effect: the oracle map (last_report, price_reports and
\* last_near_claim of the caller included) and the asset map (the reports and
\* Emas of the assets named earlier in the batch included) are as before the
\* call, and no transfer is issued.
C15_InvalidDecimalsAbortWholeBatch ==
    /\ [](\A prices \in BatchBatches, claim_near \in BOOLEAN :
             ~AllDecimalsValid(prices)
                => report_prices("a1", prices, claim_near, RichEnv).err # "")
    /\ [][ (last'.op = "report_prices" /\ last'.err # "")
           => /\ last'.transfer = 0
              /\ oracles' = oracles
              /\ assets' = assets
         ]_vars

\* C15 witness: an eligible oracle whose reward claim would qualify has just
\* had a batch refused for its decimals; it has no report counted and the
\* listed asset holds none, although a batch of a valid price for "u" followed
\* by an invalid one for "v" reaches the decimals check of its second pair.
C15_Witness ==
    /\ last.op = "report_prices"
    /\ last.err = "assertion failed: self.decimals <= MAX_VALID_DECIMALS"
    /\ Eligible(last.caller)
    /\ oracles[last.caller].last_near_claim + NEAR_CLAIM_DURATION <= block_timestamp
    /\ oracles[last.caller].price_reports = 0
    /\ oracles[last.caller].last_report = 0
    /\ "u" \in DOMAIN assets
    /\ assets["u"].reports = <<>>
    /\ report_prices(last.caller,
                     <<AssetPrice("u", Price(2, 0)), AssetPrice("v", InvalidPrice)>>,
                     TRUE, RichEnv).err = last.err

\* C16: report_prices has validated all its fatal preconditions (non-empty
\* batch, registration, approved codehash, decimals of every price) before its
\* first write to the oracle record or to an asset and before it issues a reward
\* transfer: a call that ends in a panic has made no write and scheduled no
\* transfer when it panics.
C16_VerifyEverythingThenCommit ==
    \A prices \in BatchBatches, claim_near \in BOOLEAN :
        report_prices("a1", prices, claim_near, RichEnv).err # ""
           => /\ report_prices("a1", prices, claim_near, RichEnv).writes = 0
              /\ report_prices("a1", prices, claim_near, RichEnv).transfer = 0

\* The handler's result r on a batch: when it is accepted, the caller's record
\* carries the call's timestamp and the batch's length more observations, and
\* the other records are as they were.
ReportCounted(oracle_id, prices, r) ==
    r.err = ""
       => /\ r.oracles[oracle_id].last_report = block_timestamp
          /\ r.oracles[oracle_id].price_reports
                = oracles[oracle_id].price_reports + Len(prices)
          /\ \A a \in DOMAIN oracles \ {oracle_id} : r.oracles[a] = oracles[a]

\* C17: an accepted report_prices call sets the caller's last_report to the
\* block timestamp and adds the length of the submitted batch, skipped pairs
\* included, to its price_reports, and changes neither field of another
\* oracle.  A record starts with price_reports = 0 and no other step changes
\* the two fields, so price_reports is the number of observations the oracle
\* submitted in accepted calls since its record was created.
C17_ReportsAreCounted ==
    /\ [](\A prices \in BatchBatches, claim_near \in BOOLEAN :
             ReportCounted("a1", prices,
                           report_prices("a1", prices, claim_near, RichEnv)))
    /\ [][ /\ AcceptedReport
              => /\ oracles'[last'.caller].last_report = block_timestamp
                 /\ oracles'[last'.caller].price_reports
                       > oracles[last'.caller].price_reports
                 /\ \A a \in DOMAIN oracles \ {last'.caller} :
                       oracles'[a] = oracles[a]
           /\ ~AcceptedReport
              => \A a \in DOMAIN oracles' :
                    IF a \in DOMAIN oracles
                    THEN /\ oracles'[a].price_reports = oracles[a].price_reports
                         /\ oracles'[a].last_report = oracles[a].last_report
                    ELSE /\ oracles'[a].price_reports = 0
                         /\ oracles'[a].last_report = 0
         ]_vars

\* C17 witness: the oracle's second accepted call, in a later block than the
\* first one, whose report on "u" still carries the earlier timestamp: the
\* second call's pair was skipped and counted.
C17_Witness ==
    /\ last.op = "report_prices"
    /\ last.err = ""
    /\ oracles[last.caller].price_reports = 2
    /\ oracles[last.caller].last_report = block_timestamp
    /\ "u" \in DOMAIN assets
    /\ \E r \in SeqToSet(assets["u"].reports) :
          r.oracle_id = last.caller /\ r.timestamp < block_timestamp

---------------------------------------------------------------------------
(* Properties of the reward claim, checked under SpecClaim. *)

\* C18: a transfer is issued only by an accepted report_prices call made with
\* claim_near = true at least 24 hours after the caller's last_near_claim, and
\* it transfers near_claim_amount.  last_near_claim is set to the call's
\* timestamp exactly when a transfer is issued: a step without a transfer
\* leaves every record's last_near_claim as it was, and a new record starts
\* with last_near_claim = 0.  Hence two transfers to the same oracle record are
\* at least 24 hours apart.
C18_TransfersRespectCooldown ==
    [][ /\ last'.transfer # 0
           => /\ AcceptedReport
              /\ last'.transfer = near_claim_amount
              /\ oracles[last'.caller].last_near_claim + to_nano(24 * 60 * 60)
                    <= block_timestamp
              /\ oracles'[last'.caller].last_near_claim = block_timestamp
              /\ \A a \in DOMAIN oracles \ {last'.caller} :
                    oracles'[a].last_near_claim = oracles[a].last_near_claim
              /\ \A env \in ClaimEnvs :
                    ~ReportPrices(last'.caller, <<AssetPrice("u", Price(2, 0))>>,
                                  FALSE, env)
        /\ last'.transfer = 0
           => \A a \in DOMAIN oracles' :
                 oracles'[a].last_near_claim
                    = IF a \in DOMAIN oracles THEN oracles[a].last_near_claim ELSE 0
      ]_vars

\* C18 witness: a transfer of the updated claim amount has just been issued to
\* an oracle that had reported before, in the block of the transfer to the
\* other oracle, two claim periods after the genesis block.
C18_Witness ==
    /\ last.op = "report_prices"
    /\ last.err = ""
    /\ last.transfer = 2 * ONE_NEAR
    /\ oracles[last.caller].price_reports = 2
    /\ oracles[last.caller].last_near_claim = block_timestamp
    /\ block_timestamp = 2 * NEAR_CLAIM_DURATION
    /\ \E a \in DOMAIN oracles :
          /\ a # last.caller
          /\ oracles[a].last_near_claim = block_timestamp

\* The total balance of the account (unlocked plus locked) minus the locked
\* balance minus the storage cost.
SpendableBalance(env) ==
    (env.account_balance + env.account_locked_balance)
       - env.account_locked_balance - env.storage_cost

\* C19: the balance test of the reward claim compares the spendable balance,
\* total balance minus locked balance minus storage cost, with near_claim_amount
\* plus the 1 NEAR safety margin: a call whose claim has passed the cooldown
\* issues a transfer exactly when the spendable balance strictly exceeds the sum.
C19_SpendableBalanceGatesTransfer ==
    [][ (/\ AcceptedReport
         /\ oracles[last'.caller].last_near_claim + NEAR_CLAIM_DURATION
               <= block_timestamp)
        => \A env \in ClaimEnvs :
              ReportPrices(last'.caller, <<AssetPrice("u", Price(2, 0))>>, TRUE, env)
              => (last'.transfer # 0
                    <=> SpendableBalance(env) > near_claim_amount + ONE_NEAR)
      ]_vars

\* Balances, locked balances and storage costs of the contract's account, from
\* nothing to 6 NEAR, that cover the storage cost.
AnyEnvs ==
    {env \in {Env(b, l, c) : b \in {0, 3 * ONE_NEAR, 6 * ONE_NEAR},
                             l \in {0, 1},
                             c \in {0, ONE_NEAR}} :
        env.account_balance + env.account_locked_balance >= env.storage_cost}

\* A result r that issued no transfer is the result q.
SameUnlessTransfer(r, q) == r.transfer = 0 => r = q

\* The handler's result with claim_near = true that issued no transfer, whatever
\* the account's balances, is its result q with claim_near = false.
SameAsWithoutClaim(oracle_id, prices, q) ==
    \A env \in AnyEnvs :
        SameUnlessTransfer(report_prices(oracle_id, prices, TRUE, env), q)

\* C20: the reward claim never blocks price ingestion.  Whatever the balance,
\* the locked balance and the storage cost of the contract's account, a
\* report_prices call with claim_near = true that issues no transfer ends as the
\* same call with claim_near = false: without error when that one ends without
\* error, with the same oracle record, the same reports and the same Emas; and
\* every report_prices step without a transfer is the step of the call with
\* claim_near = false.
C20_ClaimNeverBlocksIngestion ==
    /\ [](\A a \in ClaimReporters :
             SameAsWithoutClaim(a, <<AssetPrice("u", Price(2, 0))>>,
                report_prices(a, <<AssetPrice("u", Price(2, 0))>>, FALSE, RichEnv)))
    /\ [][ (last'.op = "report_prices" /\ last'.transfer = 0)
           => ReportPrices(last'.caller, <<AssetPrice("u", Price(2, 0))>>,
                           FALSE, RichEnv)
         ]_vars

\* C20 witness: an accepted report without transfer by an oracle whose cooldown
\* had passed; in this state its call with claim_near = true under a liquid
\* balance equal to near_claim_amount plus the margin is accepted, issues no
\* transfer and stores its report.
C20_Witness ==
    /\ last.op = "report_prices"
    /\ last.err = ""
    /\ last.transfer = 0
    /\ oracles[last.caller].price_reports = 1
    /\ oracles[last.caller].last_near_claim + NEAR_CLAIM_DURATION <= block_timestamp
    /\ near_claim_amount = ONE_NEAR
    /\ "u" \in DOMAIN assets
    /\ report_prices(last.caller, <<AssetPrice("u", Price(2, 0))>>, TRUE,
                     Env(3 * ONE_NEAR, 0, ONE_NEAR)).err = ""
    /\ report_prices(last.caller, <<AssetPrice("u", Price(2, 0))>>, TRUE,
                     Env(3 * ONE_NEAR, 0, ONE_NEAR)).transfer = 0
    /\ HasReport(report_prices(last.caller, <<AssetPrice("u", Price(2, 0))>>, TRUE,
                               Env(3 * ONE_NEAR, 0, ONE_NEAR)).assets["u"],
                 last.caller)

\* C21: the reward transfer is fire-and-forget.  The step in which the transfer
\* resolves, successfully or not, changes no persisted state: the reports stay
\* stored, the Emas stay, and the receiver's last_near_claim, last_report and
\* price_reports stay as the issuing call left them.
C21_TransferIsFireAndForget ==
    [][ last'.op = "transfer_result"
        => /\ oracles' = oracles
           /\ assets' = assets
           /\ approved_codehashes' = approved_codehashes
           /\ near_claim_amount' = near_claim_amount
           /\ oracles'[last'.caller].last_near_claim # 0
      ]_vars

\* C21 witness: a transfer failed in a block after the one of the call that
\* issued it; the caller's report of that call is stored and its
\* last_near_claim is the time of that call.
C21_Witness ==
    /\ last.op = "transfer_result"
    /\ last.err = "transfer failed"
    /\ oracles[last.caller].last_near_claim = NEAR_CLAIM_DURATION
    /\ oracles[last.caller].last_report = NEAR_CLAIM_DURATION
    /\ block_timestamp = 2 * NEAR_CLAIM_DURATION
    /\ "u" \in DOMAIN assets
    /\ ReportsOf(assets["u"], last.caller)
          = <<Report(last.caller, NEAR_CLAIM_DURATION, Price(2, 0))>>

\* The entries answer the ids one for one, in the order of the request.
AnswersInOrder(prices, ids) ==
    /\ Len(prices) = Len(ids)
    /\ \A i \in 1..Len(ids) : prices[i].asset_id = ids[i]

\* The text names no listed asset, neither as it stands nor before its "#".
NamesNoAsset(text) ==
    LET split == split_once(text, <<"#">>)
    IN  IF IsSome(split) THEN AssetIdOf(Unwrap(split).left) \notin DOMAIN assets
        ELSE AssetIdOf(text) \notin DOMAIN assets

\* C22: get_price_data and get_oracle_price_data never fail; they return one
\* entry per requested id, in request order, and the entry of an id that names
\* no listed asset has the absent price.
C22_QueriesTolerateUnknownAssets ==
    \A ids \in QueryRequests :
        /\ get_price_data(Some(ids)).ok
        /\ AnswersInOrder(get_price_data(Some(ids)).val.prices, ids)
        /\ \A i \in 1..Len(ids) :
              NamesNoAsset(ids[i]) => get_price_data(Some(ids)).val.prices[i].price = None
        /\ \A a \in QuorumReporters \cup {"b"} :
              LET answer == get_oracle_price_data(a, Some(ids), None)
              IN  /\ answer.ok
                  /\ AnswersInOrder(answer.val.prices, ids)
                  /\ \A i \in 1..Len(ids) :
                        NamesNoAsset(ids[i]) => answer.val.prices[i].price = None

\* The Emas of the listed asset that have the period.
EmasOfPeriod(asset_id, period_sec) ==
    IF asset_id \in DOMAIN assets
    THEN {assets[asset_id].emas[i] : i \in
            {k \in 1..Len(assets[asset_id].emas) :
                assets[asset_id].emas[k].period_sec = period_sec}}
    ELSE {}

\* An Ema that holds a price and was updated at or after now - recency.
EmaIsCurrent(ema) ==
    /\ IsSome(ema.price)
    /\ ema.timestamp + to_nano(recency_duration_sec) >= block_timestamp

\* The single entry get_price_data returns for the id base#period.
CompositeEntry(base, period) ==
    get_price_data(Some(<<AssetIdText(base) \o <<"#">> \o period>>)).val.prices[1]

\* The periods asked for: one hour and one minute, as texts and as numbers.
CompositePeriods == {<<<<"3", "6", "0", "0">>, 3600>>, <<<<"6", "0">>, 60>>}

\* C23: for a composite id "asset#period", get_price_data returns the price of
\* the asset's Ema of that period when that Ema holds a price and its last
\* update is at or after now - recency_duration; the price is absent when the
\* asset is unknown, no Ema has the period, the Ema holds no price yet, or its
\* last update is older than the cutoff.
C23_CompositeKeyReadsEma ==
    \A base \in AssetIds, p \in CompositePeriods :
        LET found == {e \in EmasOfPeriod(base, p[2]) : EmaIsCurrent(e)}
        IN  /\ get_price_data(Some(<<AssetIdText(base) \o <<"#">> \o p[1]>>)).ok
            /\ CompositeEntry(base, p[1]).asset_id = AssetIdText(base) \o <<"#">> \o p[1]
            /\ found # {} => \A e \in found : CompositeEntry(base, p[1]).price = e.price
            /\ found = {} => CompositeEntry(base, p[1]).price = None

\* C23 witness: three oracles, one report: the raw median of "u" is absent for
\* lack of a quorum while the hourly Ema, seeded when the reporter was the
\* only oracle, is returned for "u#3600".
C23_Witness ==
    /\ MapLen(oracles) = 3
    /\ PlainPrice("u") = None
    /\ IsSome(CompositeEntry("u", <<"3", "6", "0", "0">>).price)
    /\ CompositeEntry("u", <<"6", "0">>).price = None

\* The recency arguments of a single-reporter query: none, and zero, one and
\* two hours.
RecencyOverrides == {None, Some(0), Some(3600), Some(7200)}

\* The recency a query with this argument applies.
AppliedRecency(recency_sec) ==
    IF recency_sec = None THEN recency_duration_sec ELSE Unwrap(recency_sec)

\* The single entry get_oracle_price_data returns for one asset id.
OracleEntry(account_id, asset_id, recency_sec) ==
    get_oracle_price_data(account_id, Some(<<AssetIdText(asset_id)>>), recency_sec).val.prices[1]

\* The account's own stored reports of the asset that are at or after
\* now - recency.
OwnRecentReports(account_id, asset_id, recency_sec) ==
    IF asset_id \in DOMAIN assets
    THEN {assets[asset_id].reports[i] : i \in
            {k \in 1..Len(assets[asset_id].reports) :
                /\ assets[asset_id].reports[k].oracle_id = account_id
                /\ assets[asset_id].reports[k].timestamp + to_nano(AppliedRecency(recency_sec))
                      >= block_timestamp}}
    ELSE {}

\* C24: get_oracle_price_data(account, assets, recency) returns for an asset
\* the exact price of the report stored for that account when the report's
\* timestamp is at or after now - recency (the supplied override, else the
\* configured recency_duration_sec), and the absent price otherwise; neither
\* the quorum nor another oracle's report enters the result.
C24_SingleReporterQuery ==
    \A a \in QuorumReporters \cup {"b"}, asset_id \in AssetIds, r \in RecencyOverrides :
        LET own   == OwnRecentReports(a, asset_id, r)
            answer == get_oracle_price_data(a, Some(<<AssetIdText(asset_id)>>), r).val
        IN  /\ answer.recency_duration_sec = AppliedRecency(r)
            /\ answer.timestamp = block_timestamp
            /\ Cardinality(own) <= 1
            /\ own # {} => \A report \in own :
                              OracleEntry(a, asset_id, r).price = Some(report.price)
            /\ own = {} => OracleEntry(a, asset_id, r).price = None

\* C24 witness: two reporters hold different reports of "u", two blocks old;
\* the query with the configured recency returns nothing, the query with an
\* override of two hours returns to each its own price.
C24_Witness ==
    /\ block_timestamp = 2 * to_nano(InitRecencyDurationSec)
    /\ OracleEntry("a1", "u", None).price = None
    /\ OracleEntry("a1", "u", Some(7200)).price = Some(Price(100, 2))
    /\ OracleEntry("a2", "u", Some(7200)).price = Some(Price(2, 0))
    /\ OracleEntry("b", "u", Some(7200)).price = None

\* The account holds a record made by add_oracle: one without codehash
\* (register_agent always stores Some), next to a listed asset "u".
AddedByOwner(a) ==
    /\ a \in DOMAIN oracles
    /\ oracles[a].codehash = None
    /\ "u" \in DOMAIN assets

\* One report of the listed asset.
ReportOfU == <<AssetPrice("u", Price(100, 2))>>

\* Both queries for "u" return one entry, for "u".
QueriesReturnOneEntry(a) ==
    /\ get_price_data(Some(<<AssetIdText("u")>>)).ok
    /\ AnswersInOrder(get_price_data(Some(<<AssetIdText("u")>>)).val.prices,
                      <<AssetIdText("u")>>)
    /\ AnswersInOrder(get_oracle_price_data(a, Some(<<AssetIdText("u")>>), None).val.prices,
                      <<AssetIdText("u")>>)

---------------------------------------------------------------------------
(* Properties of the Price ordering, checked under SpecCompare on the prices *)
(* the reports of "u" hold.                                                 *)

StoredPrices ==
    IF "u" \in DOMAIN assets
    THEN {assets["u"].reports[i].price : i \in 1..Len(assets["u"].reports)}
    ELSE {}

\* The order of the quantities multiplier * 10^-decimals, in exact arithmetic:
\* both are brought to the larger of the two decimals.
ValueCmp(a, b) ==
    LET d == IF a.decimals < b.decimals THEN b.decimals ELSE a.decimals
    IN  DecCmp(DecMulPow10(DecOf(a.multiplier), d - a.decimals),
               DecMulPow10(DecOf(b.multiplier), d - b.decimals))

PriceLeq(a, b) == partial_cmp(a, b) \in {"Less", "Equal"}

\* C26: on Prices with decimals <= 77 the comparison is a total order that
\* agrees with the numeric value multiplier * 10^-decimals: it is
\* antisymmetric and transitive, and two encodings of one quantity, zero at
\* different decimals included, compare equal.
C26_PriceOrderIsTotalAndNumeric ==
    \A a \in StoredPrices, b \in StoredPrices, c \in StoredPrices :
        /\ partial_cmp(a, b) = ValueCmp(a, b)
        /\ partial_cmp(a, b) = Reverse(partial_cmp(b, a))
        /\ (PriceLeq(a, b) /\ PriceLeq(b, a)) => PriceEq(a, b)
        /\ (PriceLeq(a, b) /\ PriceLeq(b, c)) => PriceLeq(a, c)
        /\ ValueCmp(a, b) = "Equal" <=> PriceEq(a, b)

\* The Price of the two with the larger decimals (the first when equal).
MoreDecimals(a, b) == IF a.decimals < b.decimals THEN b ELSE a

FewerDecimals(a, b) == IF a.decimals < b.decimals THEN a ELSE b

\* C27: comparing two Prices with decimals <= 77 overflows nowhere.  The
\* multiplier of the Price with fewer decimals is scaled by the power of ten
\* of the difference only when the difference is at most 38, with a checked
\* product; when the difference exceeds 38 or the product does not fit u128,
\* the Price with more decimals is reported as the smaller.
C27_ComparisonNeverOverflows ==
    \A a \in StoredPrices, b \in StoredPrices :
        LET hi   == MoreDecimals(a, b)
            lo   == FewerDecimals(a, b)
            diff == hi.decimals - lo.decimals
        IN  /\ ~partial_cmp_u128(a, b).overflow
            /\ partial_cmp_u128(a, b).ordering = partial_cmp(a, b)
            /\ (diff > MAX_U128_DECIMALS \/ checked_mul_pow10(lo.multiplier, diff) = None)
                  => /\ partial_cmp_u128(hi, lo).ordering = "Less"
                     /\ hi.decimals > lo.decimals
                        => partial_cmp_u128(lo, hi).ordering = "Greater"
            /\ (diff <= MAX_U128_DECIMALS /\ IsSome(checked_mul_pow10(lo.multiplier, diff)))
                  => partial_cmp_u128(hi, lo).ordering
                       = DecCmp(DecOf(hi.multiplier),
                                DecMulPow10(DecOf(lo.multiplier), diff))

\* C27 witness: the reports hold 4, 10^-38 and 10^-77: the product 4 * 10^38
\* does not fit u128, and 10^-77 is 39 and 77 decimals away from the others.
C27_Witness ==
    /\ last.op = "report_prices"
    /\ last.err = ""
    /\ StoredPrices = {Price(4, 0), Price(1, 38), Price(1, MAX_VALID_DECIMALS)}
    /\ checked_mul_pow10(4, 38) = None
    /\ partial_cmp_u128(Price(1, 38), Price(4, 0)) = Compared("Less", FALSE)
    /\ partial_cmp_u128(Price(1, MAX_VALID_DECIMALS), Price(1, 38)) = Compared("Less", FALSE)

---------------------------------------------------------------------------
(* Properties of the measurement replay, checked under SpecReplay. *)

\* The events of the log whose imr equals r, in log order.
EventsOfRegister(event_log, r) == SelectSeq(event_log, LAMBDA e : e.imr = r)

\* The left fold digest := SHA384(digest || decode_hex(event.digest)).
RECURSIVE LeftFold(_, _)
LeftFold(events, digest) ==
    IF events = <<>> THEN digest
    ELSE LeftFold(Tail(events), Sha384(digest \o HexDecode(Head(events).digest)))

\* Every imr of the log is a register index of 8 bits, and the digest of
\* every event of register r is hex.
Replayable(event_log, r) ==
    /\ \A i \in 1..Len(event_log) : event_log[i].imr \in 0..255
    /\ \A i \in 1..Len(event_log) :
          event_log[i].imr = r => HexDecodeOk(event_log[i].digest)

Swapped(event_log) == <<event_log[2], event_log[1]>> \o SubSeq(event_log, 3, Len(event_log))

\* C29: the replay is order-sensitive.  For a log that starts with two events
\* of register r with different digests, the replay of the log differs from
\* the replay of the log with the two exchanged.
C29_ReplayIsOrderSensitive ==
    ( /\ last.op = "replay_rtmr"
      /\ Len(last.event_log) >= 2
      /\ Replayable(last.event_log, last.imr)
      /\ last.event_log[1].imr = last.imr
      /\ last.event_log[2].imr = last.imr
      /\ HexDecode(last.event_log[1].digest) # HexDecode(last.event_log[2].digest) )
    => /\ last.err = ""
       /\ replay_rtmr(Swapped(last.event_log), last.imr).ok
       /\ last.result # replay_rtmr(Swapped(last.event_log), last.imr).val

\* C29 witness: the two events of register 3 with digests e1 and e2, replayed
\* in this order.
C29_Witness ==
    /\ last.op = "replay_rtmr"
    /\ last.imr = 3
    /\ last.event_log = <<Event(HexEncode(<<"e1">>), 3), Event(<<"upper", <<"e2">>>>, 3)>>
    /\ last.result = <<"lower", Sha384(Sha384(Zero48 \o <<"e1">>) \o <<"e2">>)>>

\* C30: a replay of a log that holds an event whose imr is no register index
\* of 8 bits, or whose digest is no hex, is fatal: the event is neither
\* skipped nor folded.
C30_MalformedEventIsFatal ==
    ( /\ last.op = "replay_rtmr"
      /\ \E i \in 1..Len(last.event_log) :
            \/ last.event_log[i].imr \notin 0..255
            \/ ~HexDecodeOk(last.event_log[i].digest) )
    => last.err # ""

---------------------------------------------------------------------------
(* Properties of verify_codehash, checked under SpecVerify. *)

\* The last call was verify_codehash and returned a pair.
VerifyAccepted == last.op = "verify_codehash" /\ last.err = ""

\* The compose hash recomputed from the manifest text equals the digest
\* recorded under the compose-hash event of the log.
ComposeHashMatches(tcb_info) ==
    /\ \E i \in 1..Len(tcb_info.event_log) : tcb_info.event_log[i].event = "compose-hash"
    /\ replay_app_compose(tcb_info.app_compose)
         = tcb_info.event_log[ComposeHashIndex(tcb_info.event_log)].digest

\* The register replayed for index 3 over the whole log equals rtmr3.
Rtmr3Matches(tcb_info, rtmr3) ==
    /\ replay_rtmr(tcb_info.event_log, 3).ok
    /\ replay_rtmr(tcb_info.event_log, 3).val = rtmr3

\* C31: verify_codehash returns a digest pair only if the compose hash
\* recomputed from the manifest equals the digest of the log's compose-hash
\* event and the register replayed for index 3 over the whole log equals the
\* rtmr3 supplied; when either differs the call is fatal and yields nothing.
C31_BothTrustChecksHold ==
    last.op = "verify_codehash"
    => /\ last.err = "" => /\ ComposeHashMatches(last.tcb_info)
                           /\ Rtmr3Matches(last.tcb_info, last.rtmr3)
       /\ ~(ComposeHashMatches(last.tcb_info) /\ Rtmr3Matches(last.tcb_info, last.rtmr3))
            => last.err # "" /\ last.result = <<>>

\* C31 witness: a well-formed manifest with the log recorded for it, presented
\* with the register value of another manifest, is rejected for the register
\* alone.
C31_Witness ==
    /\ last.op = "verify_codehash"
    /\ last.err = "rtmr3 mismatch"
    /\ last.tcb_info.app_compose = ComposeAppFirst("d1", "d2")
    /\ ComposeHashMatches(last.tcb_info)
    /\ ~Rtmr3Matches(last.tcb_info, last.rtmr3)
    /\ ExtractImages(StripWhitespace(last.tcb_info.app_compose)).ok

\* The compose-hash event verify_codehash compared the manifest with.
MatchedEvent(tcb_info) == tcb_info.event_log[ComposeHashIndex(tcb_info.event_log)]

\* C32: every accepted manifest is bound to the attested register: the
\* compose-hash event the manifest was matched with is an event of register
\* 3, one of the events whose replay gave the rtmr3 of the quote.
C32_ManifestBoundToRegister ==
    VerifyAccepted =>
        /\ MatchedEvent(last.tcb_info).imr = 3
        /\ \E i \in DOMAIN EventsOfRegister(last.tcb_info.event_log, 3) :
              EventsOfRegister(last.tcb_info.event_log, 3)[i] = MatchedEvent(last.tcb_info)

\* The text after the first occurrence of a pattern (empty when there is none).
After(text, pattern) ==
    IF SplitIndex(text, pattern) = 0 THEN <<>>
    ELSE SubSeq(text, SplitIndex(text, pattern) + Len(pattern), Len(text))

\* The text before the first occurrence of a pattern (all of it when there is none).
Before(text, pattern) ==
    IF SplitIndex(text, pattern) = 0 THEN text
    ELSE SubSeq(text, 1, SplitIndex(text, pattern) - 1)

Contains(text, pattern) == SplitIndex(text, pattern) # 0

\* The image declaration that follows a marker: the text between the first
\* image: after the marker and the end of its line.
DeclarationAfter(text, marker) == Before(After(After(text, marker), PatNlImage), PatNl)

\* The ways a manifest (whitespace removed) is malformed.
MalformedFor(text, marker) ==
    \/ ~Contains(text, marker)
    \/ ~Contains(After(text, marker), PatNlImage)
    \/ ~Contains(DeclarationAfter(text, marker), PatAt)

Malformed(text) ==
    \/ ImageDeclarationCount(text) # 2
    \/ MalformedFor(text, PatApi)
    \/ MalformedFor(text, PatApp)

\* C33: a manifest whose image: count is not exactly two, that lacks either
\* marker, that has no image: declaration after a marker or no @sha256: in
\* that declaration is rejected with a fatal error and no digests.
C33_MalformedManifestIsFatal ==
    (last.op = "verify_codehash" /\ Malformed(StripWhitespace(last.tcb_info.app_compose)))
        => (last.err # "" /\ last.result = <<>>)

TrustChecksPass ==
    /\ last.op = "verify_codehash"
    /\ last.tcb_info.json_ok
    /\ ComposeHashMatches(last.tcb_info)
    /\ Rtmr3Matches(last.tcb_info, last.rtmr3)

C33_Witness ==
    /\ TrustChecksPass
    /\ last.tcb_info.app_compose = ComposeNoSeparator("d1", "d2")
    /\ ImageDeclarationCount(StripWhitespace(last.tcb_info.app_compose)) = 2
    /\ ~MalformedFor(StripWhitespace(last.tcb_info.app_compose), PatApi)
    /\ MalformedFor(StripWhitespace(last.tcb_info.app_compose), PatApp)
    /\ last.err = "@sha256: not found"
    /\ last.result = <<>>

\* The manifests with exactly two image declarations, one tagged as the API
\* image with digest api and one tagged as the application image with digest
\* app, in either order of the two blocks.
TaggedManifests(api, app) == { Compose(api, app), ComposeAppFirst(api, app) }

\* C34: with the trust checks passing, a manifest with exactly two image
\* declarations, tagged api (digest d1) and app (digest d2), returns exactly
\* (d1, d2), whatever the order of the two blocks.
C34_TaggedDigestsRoundTrip ==
    \A api \in Digests64, app \in Digests64 :
        (TrustChecksPass /\ last.tcb_info.app_compose \in TaggedManifests(api, app))
            => (last.err = "" /\ last.result = <<api, app>>)

C34_Witness ==
    /\ TrustChecksPass
    /\ last.tcb_info.app_compose = ComposeAppFirst("d1", "d2")
    /\ last.err = ""
    /\ last.result = <<"d1", "d2">>

\* The positions of the image declarations of a manifest, and the one that
\* follows the first occurrence of a marker.
DeclarationPositions(text) == {i \in 1..Len(text) : MatchAt(text, PatNlImage, i)}

DeclarationOf(text, marker) ==
    SplitIndex(text, marker) + Len(marker) - 1
        + SplitIndex(After(text, marker), PatNlImage)

\* The digest an image declaration at a position declares.
DigestAt(text, i) == After(Before(SubSeq(text, i + 2, Len(text)), PatNl), PatAt)[1]

\* C35: in every accepted manifest the API digest and the application digest
\* come from two distinct image declarations, so that every image
\* declaration of the manifest has its digest in the pair returned.
C35_EveryImageIsApproved ==
    VerifyAccepted =>
        /\ DeclarationOf(StripWhitespace(last.tcb_info.app_compose), PatApi)
             # DeclarationOf(StripWhitespace(last.tcb_info.app_compose), PatApp)
        /\ \A i \in DeclarationPositions(StripWhitespace(last.tcb_info.app_compose)) :
              \E k \in 1..2 :
                  last.result[k] = DigestAt(StripWhitespace(last.tcb_info.app_compose), i)

ReportAccepted == last.op = "report_prices" /\ last.err = ""

\* C36: whenever a report of an oracle registered through register_agent is
\* accepted, both image digests checked at its registration (API image d1,
\* application image d2) are approved at the time of the report.
C36_BothDigestsApprovedAtReport ==
    ReportAccepted => {"d1", "d2"} \subseteq approved_codehashes

\* C36, amended: an accepted report implies that the application image digest
\* of the reporter's registration, the codehash of its record, is approved at
\* the time of the report; with that digest revoked every report of the
\* oracle is rejected and writes nothing.
C36_AppDigestApprovedAtReport ==
    /\ ReportAccepted =>
          /\ oracles[last.caller].codehash = Some("d2")
          /\ "d2" \in approved_codehashes
    /\ ("a1" \in DOMAIN oracles /\ "d2" \notin approved_codehashes) =>
          /\ report_prices("a1", RevokeBatch, FALSE, RichEnv).err
                = "Oracle codehash is not approved"
          /\ report_prices("a1", RevokeBatch, FALSE, RichEnv).writes = 0

\* A report accepted after the API image digest was revoked.
C36_Witness ==
    /\ ReportAccepted
    /\ last.caller = "a1"
    /\ oracles["a1"].price_reports = 2
    /\ "d1" \notin approved_codehashes
    /\ "d2" \in approved_codehashes

\* The assets a batch names.
NamedAssets(prices) == {prices[i].asset_id : i \in 1..Len(prices)}

\* The reports of an asset that are not the caller's, in stored order.
ReportsOfOthers(asset, oracle_id) ==
    SelectSeq(asset.reports, LAMBDA r : r.oracle_id # oracle_id)

\* What a report_prices call of oracle_id that ended as r left as it was.
ReportFrame(oracle_id, prices, r) ==
    /\ DOMAIN r.oracles = DOMAIN oracles
    /\ \A o \in DOMAIN oracles \ {oracle_id} : r.oracles[o] = oracles[o]
    /\ r.oracles[oracle_id].codehash = oracles[oracle_id].codehash
    /\ r.oracles[oracle_id].checksum = oracles[oracle_id].checksum
    /\ DOMAIN r.assets = DOMAIN assets
    /\ \A id \in DOMAIN assets \ NamedAssets(prices) : r.assets[id] = assets[id]
    /\ \A id \in DOMAIN assets \cap NamedAssets(prices) :
          ReportsOfOthers(r.assets[id], oracle_id) = ReportsOfOthers(assets[id], oracle_id)

\* C37: an accepted report_prices call leaves unchanged the caller's codehash
\* and checksum, every other account's Oracle record, the approved-codehash
\* set, the worker map, the configuration, every asset the batch does not
\* name and the reports of other oracles in the assets it names; what it may
\* change is the caller's last_report, price_reports and last_near_claim and,
\* in the listed assets it names, the caller's report and the Emas.
C37_ReportFrame ==
    /\ [](\A a \in FrameReporters : \A prices \in FrameBatches(a), claim_near \in FrameClaims(a) :
            report_prices(a, prices, claim_near, RichEnv).err = ""
                => ReportFrame(a, prices, report_prices(a, prices, claim_near, RichEnv)))
    /\ [][ (last'.op = "report_prices" /\ last'.err = "") =>
              /\ approved_codehashes' = approved_codehashes
              /\ worker_by_account_id' = worker_by_account_id
              /\ recency_duration_sec' = recency_duration_sec
              /\ near_claim_amount' = near_claim_amount
              /\ \A o \in DOMAIN oracles \ {last'.caller} : oracles'[o] = oracles[o]
              /\ oracles'[last'.caller].codehash = oracles[last'.caller].codehash
              /\ oracles'[last'.caller].checksum = oracles[last'.caller].checksum ]_vars

\* The second reporter's accepted report of "u" with a claim: the first
\* reporter's record and its report of "u" are as before, as is asset "v" with
\* the first reporter's report, while the caller's counters, its claim time,
\* its report and the Ema of "u" are new.
C37_Witness ==
    /\ ReportAccepted
    /\ last.caller = "a2"
    /\ last.transfer > 0
    /\ oracles["a2"].last_near_claim = block_timestamp
    /\ oracles["a2"].price_reports = 1
    /\ "a1" \in DOMAIN oracles
    /\ oracles["a1"].last_report < block_timestamp
    /\ "u" \in DOMAIN assets /\ "v" \in DOMAIN assets
    /\ Len(assets["u"].reports) = 2
    /\ assets["u"].reports[1].oracle_id = "a1"
    /\ assets["u"].reports[2].oracle_id = "a2"
    /\ assets["u"].reports[2].timestamp = block_timestamp
    /\ assets["u"].emas[1].timestamp = block_timestamp
    /\ Len(assets["v"].reports) = 1
    /\ assets["v"].reports[1].timestamp < block_timestamp

\* The assets a list of ids names.
ListedAssets(asset_ids) == {asset_ids[i] : i \in 1..Len(asset_ids)}

\* When clean_oracle_data(account_id, asset_ids) must fail.
CleanRefused(account_id, asset_ids) ==
    \/ account_id \in DOMAIN oracles
    \/ \E id \in ListedAssets(asset_ids) : id \notin DOMAIN assets

\* What a clean_oracle_data that ended as r did to the assets.
Cleaned(account_id, asset_ids, r) ==
    /\ DOMAIN r.assets = DOMAIN assets
    /\ \A id \in ListedAssets(asset_ids) : ~HasReport(r.assets[id], account_id)
    /\ \A id \in DOMAIN assets \ ListedAssets(asset_ids) : r.assets[id] = assets[id]
    /\ \A id \in DOMAIN assets :
          /\ r.assets[id].emas = assets[id].emas
          /\ ReportsOfOthers(r.assets[id], account_id) = ReportsOfOthers(assets[id], account_id)

\* The reports of "u" that count now are one report, of an account without
\* an Oracle record.
OnlyRemovedOracleReports(account_id) ==
    /\ account_id \notin DOMAIN oracles
    /\ "u" \in DOMAIN assets
    /\ Len(RecentReports(assets["u"],
                          timestamp_cut(block_timestamp, recency_duration_sec))) = 1
    /\ HasReport(assets["u"], account_id)
    /\ ~HasReport(assets["u"], "a2")

\* C38: clean_oracle_data(account, asset_ids) is fatal and changes nothing
\* when the account has an Oracle record or a listed asset is unknown;
\* otherwise it succeeds, and afterwards no listed asset holds a report of the
\* account while the reports of other oracles, every Ema, the assets not
\* listed and the oracle map are as before.  The removal of an oracle leaves
\* its reports in place, and a report of a removed oracle that is recent
\* still gives the median.
C38_CleanOracleData ==
    /\ [](\A a \in CleanReporters, asset_ids \in CleanLists :
            IF CleanRefused(a, asset_ids)
            THEN clean_oracle_data(a, asset_ids).err # ""
            ELSE /\ clean_oracle_data(a, asset_ids).err = ""
                 /\ Cleaned(a, asset_ids, clean_oracle_data(a, asset_ids)))
    /\ [](OnlyRemovedOracleReports("a1") => PlainPrice("u") = Some(Price(100, 2)))
    /\ [][ /\ last'.op = "clean_oracle_data" =>
                /\ UNCHANGED <<oracles, approved_codehashes, worker_by_account_id,
                               recency_duration_sec, near_claim_amount>>
                /\ last'.err # "" => assets' = assets
                /\ last'.err = "" =>
                      /\ last'.caller \notin DOMAIN oracles
                      /\ \A id \in DOMAIN assets' : ~HasReport(assets'[id], last'.caller)
                                                     \/ assets'[id] = assets[id]
           /\ last'.op = "remove_oracle" => assets' = assets ]_vars

\* The second reporter reported "u", the first reported it a block later and
\* was removed; its data was cleaned: "u" holds the second reporter's report
\* alone, and its Ema is still the one computed at the first reporter's
\* report.
C38_Witness ==
    /\ last.op = "clean_oracle_data"
    /\ last.err = ""
    /\ last.caller = "a1"
    /\ "a1" \notin DOMAIN oracles
    /\ "u" \in DOMAIN assets
    /\ Len(assets["u"].reports) = 1
    /\ assets["u"].reports[1].oracle_id = "a2"
    /\ IsSome(assets["u"].emas[1].price)
    /\ assets["u"].emas[1].timestamp > assets["u"].reports[1].timestamp

===========================================================================
